---- MODULE Spec2Model ----
(***************************************************************************)
(* Wingman orchestration kernel: the message-processing pipeline with its  *)
(* safety gates (MessageProcessor), the transport routing of the agent     *)
(* (MultiTransportAgent._send_message) and the control-plane RPC server    *)
(* (RPCServer).                                                            *)
(*                                                                         *)
(* The pipeline is a coroutine: it runs without interruption between two   *)
(* awaits, so one call of process_message is three atomic steps            *)
(*   ProcessMessage  -- up to the await of the generation collaborator     *)
(*   GenerateReturns -- from there up to the await of the transport send   *)
(*   SendReturns     -- from there to the end of the call.                 *)
(* Time is a discrete clock `now`; durations are scaled to it.             *)
(***************************************************************************)
EXTENDS Integers, Sequences, FiniteSets, TLC

\* ------------------------------------------------------------------ bounds
MaxTime == 2          \* the clock runs 0..MaxTime
MaxEvents == 2        \* process_message calls in one behaviour
MaxRpc == 2           \* control-plane requests in one behaviour
MaxCalls == 3         \* events and control-plane requests together
MaxReplies == 1       \* RateLimiter.max_replies (scaled)
WindowSeconds == 1    \* RateLimiter.window_seconds (scaled)
DefaultCooldown == 1  \* CooldownManager.default_cooldown (scaled)
AliceCooldown == 3    \* cooldown_override of the contact "alice" (scaled)
MaxFrames == 3        \* frames the worker writes in one behaviour
MaxChunk == 4         \* bytes one read of the worker's stdout returns at most
MaxRows == 3          \* rows of the message table of chat.db
PollLimit == 2        \* LIMIT of the listener's query (50 in the code, scaled)
MaxClock == 4         \* the clock of the safety components runs 0..MaxClock
MaxCapacity == 2      \* RateLimiter.max_replies is drawn from 1..MaxCapacity
MaxWindow == 2        \* RateLimiter.window_seconds is drawn from 0..MaxWindow
MaxTicks == 3         \* ticks the rate limiter holds at most
MaxCooldown == 3      \* cooldown durations are drawn from 0..MaxCooldown
MaxRules == 2         \* entries of `rules` in the policies file
MaxString == 2        \* characters of a string of a command

\* -------------------------------------------------------- program constants
QuietStart == 0
QuietEnd == 6

\* Optional values: None is the empty tuple, Some(x) the one-element tuple.
None == <<>>
Some(x) == <<x>>
IsNone(o) == o = <<>>
Val(o) == o[1]

Tasks == {"whatsapp", "imessage"}               \* one receive loop per transport
PlatformEnum == {"whatsapp", "imessage"}        \* transports/base.py Platform
PlatformTags == PlatformEnum \cup {"sms"}       \* tags a caller can pass
Chats == {"c1", "g1"}
GroupChats == {"g1"}
Texts == {"", "reply"}                          \* generation results
Hours == {QuietEnd - 1, QuietEnd}               \* datetime.now().hour, sampled

VARIABLES
    now,              \* time.time()
    paused,           \* MessageProcessor.paused
    pause_until,      \* MessageProcessor.pause_until
    timestamps,       \* RateLimiter._timestamps
    last_reply,       \* CooldownManager._last_reply
    custom_cooldowns, \* CooldownManager._custom_cooldowns
    store,            \* MessageStore rows, in insertion (rowid) order
    transports,       \* MultiTransportAgent.transports (registered platforms)
    sender_set,       \* MessageProcessor._send_message is not None
    transport_sends,  \* calls of transport.send_message, per platform
    pc,               \* position of each task's process_message coroutine
    cur,              \* the event (and reply) each task is processing
    trace,            \* what each task's current call has done so far, in order
    gate,             \* the gate check made last: states, reason, gates consulted
    done,             \* the record of the call that finished last
    nEvents,          \* calls of process_message so far
    rpc,              \* the last request/response exchange of the console client
    nRpc,             \* control-plane requests so far
    conn,             \* a control-plane connection: none, open, eof, closed
    inbox,            \* frames the client wrote that the server has not read
    outbox,           \* responses the server wrote, each with its request
    consumed          \* non-empty frames the server has split off its buffer

VARIABLES
    wire,             \* bytes the worker wrote to stdout that were not read yet
    wire_eof,         \* the worker closed its stdout
    written,          \* the frames the worker wrote, in order
    ipc_buffer,       \* IPCHandler._buffer (decoded text)
    ipc_running,      \* IPCHandler._running
    ipc_pc,           \* position of IPCHandler._read_messages
    chunk_lost,       \* a chunk that was read never reached the buffer
    processed,        \* the strings handed to _process_message, in order
    dispatched,       \* the messages handed to a handler, in order
    calls             \* starts and returns of handler calls, in order

ipcVars == <<wire, wire_eof, written, ipc_buffer, ipc_running, ipc_pc,
             chunk_lost, processed, dispatched, calls>>

VARIABLES
    task,               \* the _run_transport task of each platform
    t_running,          \* BaseTransport._running of each platform
    ipc_set,            \* WhatsAppTransport._ipc is not None
    process_set,        \* NodeProcessManager.process is not None
    os_proc,            \* the worker process: none, alive, exited
    listener,           \* IMessageTransport._listener_task
    agent_pc,           \* position of run_agent
    start_result,       \* how MultiTransportAgent.start ended
    shutdown_requested, \* MultiTransportAgent._shutdown_event
    stop_pc,            \* position of NodeProcessManager.stop
    stop_log            \* the steps of the stop made last, in order

agentVars == <<task, t_running, ipc_set, process_set, os_proc, listener, agent_pc,
               start_result, shutdown_requested, stop_pc, stop_log>>

VARIABLES
    db,                 \* chat.db message table: db[rowid] is "the row has text"
    last_rowid,         \* IMessageDBListener._last_rowid
    poll_batch,         \* rowids of the messages fetched, not yet delivered
    poll_pc,            \* position of _poll_loop
    poll_calls          \* starts and returns of the message callback, in order

pollVars == <<db, last_rowid, poll_batch, poll_pc, poll_calls>>

VARIABLES
    max_replies,        \* RateLimiter.max_replies
    window_seconds,     \* RateLimiter.window_seconds
    default_cooldown,   \* CooldownManager.default_cooldown
    safety_op           \* the last call made on a safety component, its answer

safetyVars == <<max_replies, window_seconds, default_cooldown, safety_op>>

VARIABLES
    policy_rules,       \* PolicyEvaluator._rules
    fallback_action,    \* PolicyEvaluator._fallback_action
    policy_ctx,         \* the MessageContext to evaluate
    policy_decision     \* the PolicyDecision returned, None before the call

policyVars == <<policy_rules, fallback_action, policy_ctx, policy_decision>>

VARIABLES
    start_hour,         \* QuietHoursChecker.start_hour
    end_hour,           \* QuietHoursChecker.end_hour
    qh_enabled,         \* QuietHoursChecker.enabled
    quiet_answer        \* the last is_quiet_time call: its hour and its answer

quietVars == <<start_hour, end_hour, qh_enabled, quiet_answer>>

VARIABLES
    command,            \* the IPCCommand handed to send_command
    stdin_bytes,        \* what send_command wrote to the worker's stdin
    received            \* the command the worker decoded from the frame

codecVars == <<command, stdin_bytes, received>>
moreVars == <<pollVars, safetyVars, policyVars, quietVars, codecVars>>

extVars == <<ipcVars, agentVars, moreVars>>
pipeVars == <<paused, pause_until, timestamps, last_reply, custom_cooldowns,
              store, transport_sends, pc, cur, trace, gate, done, nEvents>>
vars == <<now, transports, sender_set, paused, pause_until, timestamps,
          last_reply, custom_cooldowns, store, transport_sends, pc, cur,
          trace, gate, done, nEvents, rpc, nRpc, conn, inbox, outbox, consumed,
          extVars>>

connVars == <<conn, inbox, outbox, consumed>>

nonIpcVars == <<now, transports, sender_set, rpc, nRpc, pipeVars, connVars, agentVars,
                moreVars>>
\* what the agent's lifecycle leaves alone (it sets ipc_running and ipc_pc and
\* sees the worker's stdout close)
nonAgentVars == <<now, transports, sender_set, rpc, nRpc, pipeVars, connVars,
                  wire, written, ipc_buffer, chunk_lost, processed, dispatched, calls,
                  moreVars>>
nonPollVars == <<now, transports, sender_set, rpc, nRpc, pipeVars, connVars, ipcVars,
                 agentVars, safetyVars, policyVars, quietVars, codecVars>>

\* ------------------------------------------------------------ rate limiter
RECURSIVE cleanup_old_entries(_, _)
cleanup_old_entries(ts, t) ==
    IF ts # <<>> /\ Head(ts) < t - WindowSeconds
    THEN cleanup_old_entries(Tail(ts), t)
    ELSE ts

can_reply(ts, t) == Len(cleanup_old_entries(ts, t)) < MaxReplies

\* record_reply appending the tick twice
rl_record_reply_twice(ts, t) == Append(Append(cleanup_old_entries(ts, t), t), t)

rl_record_reply(ts, t) == Append(cleanup_old_entries(ts, t), t)

\* ---------------------------------------------------------------- cooldown
get_cooldown(cc, chat) ==
    IF IsNone(cc[chat]) THEN DefaultCooldown ELSE Val(cc[chat])

\* is_on_cooldown also answering true while a reply to the chat is under way
is_on_cooldown_reserving(lr, cc, chat, t) ==
    \/ \E t2 \in DOMAIN pc :
          pc[t2] \in {"generating", "sending"} /\ Val(cur[t2].data).chat_id = chat
    \/ IF IsNone(lr[chat]) THEN FALSE
       ELSE (t - Val(lr[chat])) < get_cooldown(cc, chat)

is_on_cooldown(lr, cc, chat, t) ==
    IF IsNone(lr[chat]) THEN FALSE
    ELSE (t - Val(lr[chat])) < get_cooldown(cc, chat)

\* ------------------------------------------------------------- quiet hours
is_quiet_time(h) ==
    IF QuietStart <= QuietEnd
    THEN QuietStart <= h /\ h < QuietEnd
    ELSE h >= QuietStart \/ h < QuietEnd

\* ------------------------------------------------------------------- store
Message(chat, self, ts, platform) ==
    [chat_id |-> chat, is_self |-> self, timestamp |-> ts, platform |-> platform]

ChatRows(st, chat) == {i \in 1..Len(st) : st[i].chat_id = chat}

\* the query ordered by insertion instead of by timestamp
was_last_message_from_self_by_rowid(st, chat) ==
    IF ChatRows(st, chat) = {} THEN {FALSE}
    ELSE {st[i].is_self : i \in {j \in ChatRows(st, chat) :
             \A k \in ChatRows(st, chat) : k <= j}}

\* SELECT is_self ... ORDER BY timestamp DESC LIMIT 1: the order among rows of
\* equal timestamp is not defined, so every row of greatest timestamp is a
\* possible answer.
was_last_message_from_self(st, chat) ==
    IF ChatRows(st, chat) = {} THEN {FALSE}
    ELSE {st[i].is_self : i \in {j \in ChatRows(st, chat) :
             \A k \in ChatRows(st, chat) : st[k].timestamp <= st[j].timestamp}}

\* ---------------------------------------------------------------- registry
cooldown_override(sender) ==
    IF sender = "alice" THEN Some(AliceCooldown) ELSE None

\* -------------------------------------------------------------- pause gate
\* The pause gate of _check_safety_rules: a pause whose deadline has been
\* reached is cleared and lets the check go on; any other pause skips.
\* the pause gate letting an expired pause through without clearing its deadline
pause_gate_keeps_deadline(p, pu, t) ==
    IF ~p THEN [skip |-> FALSE, paused |-> p, pause_until |-> pu]
    ELSE IF ~IsNone(pu) /\ t >= Val(pu)
         THEN [skip |-> FALSE, paused |-> FALSE, pause_until |-> pu]
         ELSE [skip |-> TRUE, paused |-> p, pause_until |-> pu]

pause_gate(p, pu, t) ==
    IF ~p THEN [skip |-> FALSE, paused |-> p, pause_until |-> pu]
    ELSE IF ~IsNone(pu) /\ t >= Val(pu)
         THEN [skip |-> FALSE, paused |-> FALSE, pause_until |-> None]
         ELSE [skip |-> TRUE, paused |-> p, pause_until |-> pu]

\* the gates with the cooldown consulted before the rate limit
check_safety_rules_cooldown_first(p, pu, h, ts, lr, cc, chat, lastSelf, t) ==
    LET pg == pause_gate(p, pu, t)
        ts1 == cleanup_old_entries(ts, t)
        out(reason, consulted, tsOut) ==
            [reason |-> reason, consulted |-> consulted, paused |-> pg.paused,
             pause_until |-> pg.pause_until, timestamps |-> tsOut]
    IN  IF pg.skip
        THEN out(Some("paused"), <<"paused">>, ts)
        ELSE IF is_quiet_time(h)
        THEN out(Some("quiet_hours"), <<"paused", "quiet_hours">>, ts)
        ELSE IF is_on_cooldown(lr, cc, chat, t)
        THEN out(Some("cooldown"), <<"paused", "quiet_hours", "cooldown">>, ts)
        ELSE IF ~can_reply(ts, t)
        THEN out(Some("rate_limit"),
                 <<"paused", "quiet_hours", "cooldown", "rate_limit">>, ts1)
        ELSE IF lastSelf
        THEN out(Some("double_reply"),
                 <<"paused", "quiet_hours", "cooldown", "rate_limit", "double_reply">>, ts1)
        ELSE out(None,
                 <<"paused", "quiet_hours", "cooldown", "rate_limit", "double_reply">>, ts1)

\* ------------------------------------------------------------ safety gates
\* _check_safety_rules(chat_id): the skip reason (None when every gate
\* passes), the gates consulted in order, and the state the check leaves
\* behind (the pause gate may clear the pause, can_reply prunes expired ticks).
check_safety_rules(p, pu, h, ts, lr, cc, chat, lastSelf, t) ==
    LET pg == pause_gate(p, pu, t)
        ts1 == cleanup_old_entries(ts, t)
        out(reason, consulted, tsOut) ==
            [reason |-> reason, consulted |-> consulted, paused |-> pg.paused,
             pause_until |-> pg.pause_until, timestamps |-> tsOut]
    IN  IF pg.skip
        THEN out(Some("paused"), <<"paused">>, ts)
        ELSE IF is_quiet_time(h)
        THEN out(Some("quiet_hours"), <<"paused", "quiet_hours">>, ts)
        ELSE IF ~can_reply(ts, t)
        THEN out(Some("rate_limit"), <<"paused", "quiet_hours", "rate_limit">>, ts1)
        ELSE IF is_on_cooldown(lr, cc, chat, t)
        THEN out(Some("cooldown"),
                 <<"paused", "quiet_hours", "rate_limit", "cooldown">>, ts1)
        ELSE IF lastSelf
        THEN out(Some("double_reply"),
                 <<"paused", "quiet_hours", "rate_limit", "cooldown", "double_reply">>, ts1)
        ELSE out(None,
                 <<"paused", "quiet_hours", "rate_limit", "cooldown", "double_reply">>, ts1)

\* The state of the five gates at the moment of a check, each stated on its
\* own from the data the gate reads.
GateStates(p, pu, h, ts, lr, cc, chat, lastSelf, t) ==
    [paused |-> p /\ (IsNone(pu) \/ t < Val(pu)),
     quiet_hours |-> h \in QuietStart..(QuietEnd - 1),
     rate_limit |-> Cardinality({i \in 1..Len(ts) : ts[i] >= t - WindowSeconds})
                        >= MaxReplies,
     cooldown |-> /\ ~IsNone(lr[chat])
                  /\ t - Val(lr[chat]) <
                       (IF IsNone(cc[chat]) THEN DefaultCooldown ELSE Val(cc[chat])),
     double_reply |-> lastSelf]

NoGate == [checked |-> FALSE]

\* ------------------------------------------------------- transport routing
\* MultiTransportAgent._send_message up to the await of transport.send_message
route(platform) ==
    IF platform \notin PlatformEnum THEN "unknown_platform"
    ELSE IF platform \notin transports THEN "no_transport"
    ELSE "transport"

\* ---------------------------------------------------------------- pipeline
\* The events the receive loops hand to the pipeline. The group g1 holds alice
\* (a contact with a cooldown override) and bob, the direct chat c1 holds bob.
\* The whatsapp loop also delivers the account's own messages; the second
\* loop also delivers an event whose platform tag is outside the Platform enum.
Event(chat, sender, self, platform, ts) ==
    [chat_id |-> chat, sender_id |-> sender, is_self |-> self,
     platform |-> platform, timestamp |-> ts]

Events(t, ts) ==
    IF t = "whatsapp"
    THEN {Event("g1", "alice", FALSE, "whatsapp", ts),
          Event("c1", "bob", FALSE, "whatsapp", ts),
          Event("c1", "self", TRUE, "whatsapp", ts)}
    ELSE {Event("g1", "bob", FALSE, "imessage", ts),
          Event("c1", "bob", FALSE, "sms", ts)}

\* the timestamp a transport stamps on an event: the present, or the epoch
\* of a message that was delayed on its way
EventTimes(t) == {0, t}

is_group(data) == data.chat_id \in GroupChats

\* the pipeline going on with an event of the account itself
skip_self_never(data) == FALSE

\* "if is_self: return" right after the inbound message is stored
skip_self(data) == data.is_self

Idle == [data |-> None, response |-> ""]

NoCall == [result |-> "none", chat_id |-> "", platform |-> "", is_self |-> FALSE,
           response |-> "", trace |-> <<>>]

\* the call of task t returns: its record becomes the last finished call
Finish(t, data, response, res, tr) ==
    /\ pc' = [pc EXCEPT ![t] = "idle"]
    /\ cur' = [cur EXCEPT ![t] = Idle]
    /\ trace' = [trace EXCEPT ![t] = <<>>]
    /\ done' = [result |-> res, chat_id |-> data.chat_id, platform |-> data.platform,
                is_self |-> data.is_self, response |-> response, trace |-> tr]

\* process_message installing the contact's override after the gates have run
ProcessMessageOverrideLate(t, data, hour, respond, lastSelf) ==
    LET msg == Message(data.chat_id, data.is_self, data.timestamp, data.platform)
        st1 == Append(store, msg)
        ov == cooldown_override(data.sender_id)
        cc1 == IF IsNone(ov) THEN custom_cooldowns
               ELSE [custom_cooldowns EXCEPT ![data.chat_id] = ov]
        g == check_safety_rules(paused, pause_until, hour, timestamps, last_reply,
                                custom_cooldowns, data.chat_id, lastSelf, now)
        glog == [checked |-> TRUE, reason |-> g.reason, consulted |-> g.consulted,
                 states |-> GateStates(paused, pause_until, hour, timestamps,
                                last_reply, cc1, data.chat_id, lastSelf, now)]
        tr1 == <<"store_in", "resolve_contact">>
               \o (IF is_group(data) THEN <<"resolve_group">> ELSE <<>>)
               \o (IF IsNone(ov) THEN <<>> ELSE <<"set_cooldown">>)
               \o <<"gates">>
               \o (IF g.paused # paused THEN <<"pause_cleared">> ELSE <<>>)
               \o (IF g.timestamps # timestamps THEN <<"rl_prune">> ELSE <<>>)
    IN
    /\ pc[t] = "idle"
    /\ nEvents < MaxEvents
    /\ nEvents + nRpc < MaxCalls
    /\ lastSelf \in was_last_message_from_self(st1, data.chat_id)
    /\ nEvents' = nEvents + 1
    /\ store' = st1
    /\ IF skip_self(data)
       THEN /\ Finish(t, data, "", "self", <<"store_in">>)
            /\ UNCHANGED <<paused, pause_until, timestamps, custom_cooldowns, gate>>
       ELSE /\ custom_cooldowns' = cc1
            /\ paused' = g.paused
            /\ pause_until' = g.pause_until
            /\ timestamps' = g.timestamps
            /\ gate' = glog
            /\ IF ~IsNone(g.reason)
               THEN Finish(t, data, "", Val(g.reason), tr1)
               ELSE IF ~respond
               THEN Finish(t, data, "", "no_response", tr1 \o <<"policy:no">>)
               ELSE /\ pc' = [pc EXCEPT ![t] = "generating"]
                    /\ cur' = [cur EXCEPT ![t] = [data |-> Some(data), response |-> ""]]
                    /\ trace' = [trace EXCEPT ![t] = tr1 \o <<"policy:yes", "generate">>]
                    /\ UNCHANGED done
    /\ UNCHANGED <<now, transports, sender_set, last_reply, transport_sends, rpc, nRpc>>
    /\ UNCHANGED connVars
    /\ UNCHANGED extVars

\* process_message from its entry to the await of the generation collaborator
ProcessMessage(t, data, hour, respond, lastSelf) ==
    LET msg == Message(data.chat_id, data.is_self, data.timestamp, data.platform)
        st1 == Append(store, msg)
        ov == cooldown_override(data.sender_id)
        cc1 == IF IsNone(ov) THEN custom_cooldowns
               ELSE [custom_cooldowns EXCEPT ![data.chat_id] = ov]
        g == check_safety_rules(paused, pause_until, hour, timestamps, last_reply,
                                cc1, data.chat_id, lastSelf, now)
        glog == [checked |-> TRUE, reason |-> g.reason, consulted |-> g.consulted,
                 states |-> GateStates(paused, pause_until, hour, timestamps,
                                last_reply, cc1, data.chat_id, lastSelf, now)]
        tr1 == <<"store_in", "resolve_contact">>
               \o (IF is_group(data) THEN <<"resolve_group">> ELSE <<>>)
               \o (IF IsNone(ov) THEN <<>> ELSE <<"set_cooldown">>)
               \o <<"gates">>
               \o (IF g.paused # paused THEN <<"pause_cleared">> ELSE <<>>)
               \o (IF g.timestamps # timestamps THEN <<"rl_prune">> ELSE <<>>)
    IN
    /\ pc[t] = "idle"
    /\ nEvents < MaxEvents
    /\ nEvents + nRpc < MaxCalls
    /\ lastSelf \in was_last_message_from_self(st1, data.chat_id)
    /\ nEvents' = nEvents + 1
    /\ store' = st1
    /\ IF skip_self(data)
       THEN /\ Finish(t, data, "", "self", <<"store_in">>)
            /\ UNCHANGED <<paused, pause_until, timestamps, custom_cooldowns, gate>>
       ELSE /\ custom_cooldowns' = cc1
            /\ paused' = g.paused
            /\ pause_until' = g.pause_until
            /\ timestamps' = g.timestamps
            /\ gate' = glog
            /\ IF ~IsNone(g.reason)
               THEN Finish(t, data, "", Val(g.reason), tr1)
               ELSE IF ~respond
               THEN Finish(t, data, "", "no_response", tr1 \o <<"policy:no">>)
               ELSE /\ pc' = [pc EXCEPT ![t] = "generating"]
                    /\ cur' = [cur EXCEPT ![t] = [data |-> Some(data), response |-> ""]]
                    /\ trace' = [trace EXCEPT ![t] = tr1 \o <<"policy:yes", "generate">>]
                    /\ UNCHANGED done
    /\ UNCHANGED <<now, transports, sender_set, last_reply, transport_sends, rpc, nRpc>>
    /\ UNCHANGED connVars
    /\ UNCHANGED extVars

\* an empty generation result treated as a reply that went out
NoResponseTicks(t, data) ==
    /\ Finish(t, data, "", "no_text", trace[t] \o <<"rl_tick", "cd_tick">>)
    /\ timestamps' = rl_record_reply(timestamps, now)
    /\ last_reply' = [last_reply EXCEPT ![data.chat_id] = Some(now)]
    /\ UNCHANGED transport_sends

\* "if not response: return"
NoResponse(t, data) ==
    /\ Finish(t, data, "", "no_text", trace[t])
    /\ UNCHANGED <<timestamps, last_reply, transport_sends>>

\* from the return of the generation collaborator to the await of the send
GenerateReturns(t, response) ==
    LET data == Val(cur[t].data)
        r == route(data.platform)
    IN
    /\ pc[t] = "generating"
    /\ IF response = ""
       THEN NoResponse(t, data)
       ELSE IF ~sender_set
       THEN /\ Finish(t, data, response, "no_sender", trace[t])
            /\ UNCHANGED <<timestamps, last_reply, transport_sends>>
       ELSE IF r # "transport"
       THEN /\ Finish(t, data, response, "send_failed", trace[t] \o <<"send_call", r>>)
            /\ UNCHANGED <<timestamps, last_reply, transport_sends>>
       ELSE /\ pc' = [pc EXCEPT ![t] = "sending"]
            /\ cur' = [cur EXCEPT ![t].response = response]
            /\ trace' = [trace EXCEPT ![t] = trace[t] \o <<"send_call", "transport_send">>]
            /\ transport_sends' = [transport_sends EXCEPT ![data.platform] = @ + 1]
            /\ UNCHANGED <<timestamps, last_reply, done>>
    /\ UNCHANGED <<now, transports, sender_set, paused, pause_until,
                   custom_cooldowns, store, gate, nEvents, rpc, nRpc>>
    /\ UNCHANGED connVars
    /\ UNCHANGED extVars

\* SendReturns with the safety trackers updated before the result of the send
\* is looked at
SendReturnsTickFirst(t, success) ==
    LET data == Val(cur[t].data) IN
    /\ pc[t] = "sending"
    /\ timestamps' = rl_record_reply(timestamps, now)
    /\ last_reply' = [last_reply EXCEPT ![data.chat_id] = Some(now)]
    /\ IF ~success
       THEN /\ Finish(t, data, cur[t].response, "send_failed",
                      trace[t] \o <<"rl_tick", "cd_tick", "send_false">>)
            /\ UNCHANGED store
       ELSE /\ store' = Append(store, Message(data.chat_id, TRUE, now, data.platform))
            /\ Finish(t, data, cur[t].response, "sent",
                      trace[t] \o <<"rl_tick", "cd_tick", "send_true", "store_out">>)
    /\ UNCHANGED <<now, transports, sender_set, paused, pause_until,
                   custom_cooldowns, transport_sends, gate, nEvents, rpc, nRpc>>
    /\ UNCHANGED connVars
    /\ UNCHANGED extVars

\* from the return of transport.send_message to the end of process_message
SendReturns(t, success) ==
    LET data == Val(cur[t].data) IN
    /\ pc[t] = "sending"
    /\ IF ~success
       THEN /\ Finish(t, data, cur[t].response, "send_failed", trace[t] \o <<"send_false">>)
            /\ UNCHANGED <<timestamps, last_reply, store>>
       ELSE /\ timestamps' = rl_record_reply(timestamps, now)
            /\ last_reply' = [last_reply EXCEPT ![data.chat_id] = Some(now)]
            /\ store' = Append(store, Message(data.chat_id, TRUE, now, data.platform))
            /\ Finish(t, data, cur[t].response, "sent",
                      trace[t] \o <<"send_true", "rl_tick", "cd_tick", "store_out">>)
    /\ UNCHANGED <<now, transports, sender_set, paused, pause_until,
                   custom_cooldowns, transport_sends, gate, nEvents, rpc, nRpc>>
    /\ UNCHANGED connVars
    /\ UNCHANGED extVars

\* ------------------------------------------------------------ RPC server
\* A frame is what lies between two NUL delimiters. Its kind says how far the
\* server's decoding gets: bytes that are not UTF-8, text that is not JSON,
\* JSON that is not an object, or a JSON object. An object has an id (absent
\* or null: None), a method and params.
NoDuration == [type |-> "none", v |-> 0]
Num(n) == [type |-> "num", v |-> n]
StrDuration == [type |-> "str", v |-> 0]
NoParams == [duration |-> NoDuration, jid |-> "", text |-> "", platform |-> "whatsapp"]

Request(id, method, params) ==
    [kind |-> "object", id |-> id, method |-> method, params |-> params]
BadFrame(kind) == [kind |-> kind, id |-> None, method |-> "", params |-> NoParams]

Methods == {"ping", "get_status", "send_message", "pause", "resume", "list_active_chats"}

\* Python truthiness of params.get("duration")
truthy(d) == (d.type = "num" /\ d.v # 0) \/ d.type = "str"

Null == [kind |-> "null"]
Response(id, result, error) == [id |-> id, result |-> result, error |-> error]

\* What a handler does: whether it raised, its result, the pause state it
\* leaves and the platform whose transport it called (None: no call).
Outcome(raised, res, p, pu, sent) ==
    [raised |-> raised, result |-> res, paused |-> p, pause_until |-> pu, sent |-> sent]

rpc_ping(params) ==
    Outcome(FALSE, [kind |-> "ping", pong |-> TRUE], paused, pause_until, None)

rpc_get_status(params) ==
    Outcome(FALSE,
            [kind |-> "status", running |-> TRUE,
             transports |-> [p \in transports |-> TRUE],
             paused |-> paused, pause_until |-> pause_until],
            paused, pause_until, None)

\* send_message refusing to send while the pipeline is paused
rpc_send_message_gated(params, sendOk) ==
    IF params.jid = "" \/ params.text = ""
    THEN Outcome(FALSE, [kind |-> "send", success |-> FALSE, error |-> TRUE],
                 paused, pause_until, None)
    ELSE IF route(params.platform) # "transport" \/ paused
    THEN Outcome(FALSE, [kind |-> "send", success |-> FALSE, error |-> FALSE],
                 paused, pause_until, None)
    ELSE Outcome(FALSE, [kind |-> "send", success |-> sendOk, error |-> FALSE],
                 paused, pause_until, Some(params.platform))

rpc_send_message(params, sendOk) ==
    IF params.jid = "" \/ params.text = ""
    THEN Outcome(FALSE, [kind |-> "send", success |-> FALSE, error |-> TRUE],
                 paused, pause_until, None)
    ELSE IF route(params.platform) # "transport"
    THEN Outcome(FALSE, [kind |-> "send", success |-> FALSE, error |-> FALSE],
                 paused, pause_until, None)
    ELSE Outcome(FALSE, [kind |-> "send", success |-> sendOk, error |-> FALSE],
                 paused, pause_until, Some(params.platform))

rpc_pause(params) ==
    LET duration == params.duration IN
    IF truthy(duration)
    THEN IF duration.type = "num"
         THEN Outcome(FALSE, [kind |-> "pause", paused |-> TRUE,
                              until |-> Some(now + duration.v)],
                      TRUE, Some(now + duration.v), None)
         ELSE Outcome(TRUE, Null, TRUE, pause_until, None)
    ELSE Outcome(FALSE, [kind |-> "pause", paused |-> TRUE, until |-> None],
                 TRUE, None, None)

\* _rpc_resume leaving the deadline in place
rpc_resume_keeps_deadline(params) ==
    Outcome(FALSE, [kind |-> "resume", paused |-> FALSE], FALSE, pause_until, None)

rpc_resume(params) ==
    Outcome(FALSE, [kind |-> "resume", paused |-> FALSE], FALSE, None, None)

rpc_list_active_chats(params) ==
    Outcome(FALSE, [kind |-> "chats", chats |-> {store[i].chat_id : i \in 1..Len(store)}],
            paused, pause_until, None)

\* _process_request(raw): crashed is an exception that leaves the method (it
\* ends the connection's handler); otherwise the response and the handler's
\* outcome.
Unhandled == Outcome(FALSE, Null, paused, pause_until, None)

\* _process_request answering a raising handler without the request's id
process_request_drops_id(frame, sendOk) ==
    IF frame.kind = "not_json"
    THEN [crashed |-> FALSE, outcome |-> Unhandled,
          response |-> Response(None, Null, Some("Invalid JSON"))]
    ELSE IF frame.kind # "object"
    THEN [crashed |-> TRUE, outcome |-> Unhandled, response |-> Response(None, Null, None)]
    ELSE IF frame.method \notin Methods
    THEN [crashed |-> FALSE, outcome |-> Unhandled,
          response |-> Response(frame.id, Null, Some("Unknown method"))]
    ELSE LET o == CASE frame.method = "ping" -> rpc_ping(frame.params)
                    [] frame.method = "get_status" -> rpc_get_status(frame.params)
                    [] frame.method = "send_message" -> rpc_send_message(frame.params, sendOk)
                    [] frame.method = "pause" -> rpc_pause(frame.params)
                    [] frame.method = "resume" -> rpc_resume(frame.params)
                    [] OTHER -> rpc_list_active_chats(frame.params)
         IN [crashed |-> FALSE, outcome |-> o,
             response |-> IF o.raised THEN Response(None, Null, Some("exception"))
                          ELSE Response(frame.id, o.result, None)]

process_request(frame, sendOk) ==
    IF frame.kind = "not_json"
    THEN [crashed |-> FALSE, outcome |-> Unhandled,
          response |-> Response(None, Null, Some("Invalid JSON"))]
    ELSE IF frame.kind # "object"
    THEN [crashed |-> TRUE, outcome |-> Unhandled, response |-> Response(None, Null, None)]
    ELSE IF frame.method \notin Methods
    THEN [crashed |-> FALSE, outcome |-> Unhandled,
          response |-> Response(frame.id, Null, Some("Unknown method"))]
    ELSE LET o == CASE frame.method = "ping" -> rpc_ping(frame.params)
                    [] frame.method = "get_status" -> rpc_get_status(frame.params)
                    [] frame.method = "send_message" -> rpc_send_message(frame.params, sendOk)
                    [] frame.method = "pause" -> rpc_pause(frame.params)
                    [] frame.method = "resume" -> rpc_resume(frame.params)
                    [] OTHER -> rpc_list_active_chats(frame.params)
         IN [crashed |-> FALSE, outcome |-> o,
             response |-> IF o.raised THEN Response(frame.id, Null, Some("exception"))
                          ELSE Response(frame.id, o.result, None)]

\* the state a handler's outcome leaves behind
Apply(o) ==
    /\ paused' = o.paused
    /\ pause_until' = o.pause_until
    /\ transport_sends' = IF IsNone(o.sent) THEN transport_sends
                          ELSE [transport_sends EXCEPT ![Val(o.sent)] = @ + 1]

\* The requests the console client sends while the pipeline runs.
ClientRequests ==
    {Request(Some(1), "pause", [NoParams EXCEPT !.duration = d]) :
        d \in {NoDuration, Num(0), Num(1)}}
    \cup {Request(Some(1), m, NoParams) : m \in {"resume", "get_status"}}
    \cup {Request(Some(1), "send_message",
                  [NoParams EXCEPT !.jid = "c1", !.text = "hi", !.platform = p]) :
             p \in PlatformTags}
    \cup {Request(Some(1), "send_message", [NoParams EXCEPT !.jid = "c1"]),
          Request(Some(1), "send_message", [NoParams EXCEPT !.text = "hi"])}

NoExchange == [request |-> BadFrame("none"), response |-> Response(None, Null, None),
               flag |-> None]

\* RPCClient.call: one request on a fresh connection, answered by the server
RpcCall(req, sendOk) ==
    LET r == process_request(req, sendOk) IN
    /\ nRpc < MaxRpc
    /\ nEvents + nRpc < MaxCalls
    /\ nRpc' = nRpc + 1
    /\ Apply(r.outcome)
    /\ rpc' = [request |-> req, response |-> r.response,
               flag |-> IF IsNone(r.outcome.sent) THEN None ELSE Some(sendOk)]
    /\ UNCHANGED <<now, transports, sender_set, timestamps, last_reply,
                   custom_cooldowns, store, pc, cur, trace, gate, done, nEvents>>
    /\ UNCHANGED connVars
    /\ UNCHANGED extVars

\* ------------------------------------------------- RPC server connections
\* _handle_client, for one accepted connection. inbox holds the frames the
\* client has written and the server has not yet split off its buffer; outbox
\* holds, for every response the server wrote, the frame it answers.
Frames ==
    {Request(id, m, NoParams) : id \in {Some(1), Some(2)}, m \in Methods \cup {"bogus"}}
    \cup {Request(None, "ping", NoParams)}
    \cup {Request(Some(1), "pause", [NoParams EXCEPT !.duration = d]) :
             d \in {Num(0), Num(1), StrDuration}}
    \cup {Request(Some(1), "send_message",
                  [NoParams EXCEPT !.jid = "c1", !.text = "hi", !.platform = p]) :
             p \in PlatformTags}
    \cup {BadFrame(k) : k \in {"empty", "not_utf8", "not_json", "not_object"}}

ClientConnect ==
    /\ conn = "none"
    /\ conn' = "open"
    /\ inbox' = <<>>
    /\ outbox' = <<>>
    /\ consumed' = 0
    /\ UNCHANGED <<now, transports, sender_set, rpc, nRpc>>
    /\ UNCHANGED pipeVars
    /\ UNCHANGED extVars

ClientSend(frame) ==
    /\ conn = "open"
    /\ nRpc < MaxRpc
    /\ nRpc' = nRpc + 1
    /\ inbox' = Append(inbox, frame)
    /\ UNCHANGED <<now, transports, sender_set, rpc, conn, outbox, consumed>>
    /\ UNCHANGED pipeVars
    /\ UNCHANGED extVars

\* one pass of "while DELIMITER in buffer": split a frame off the buffer,
\* decode it, process it, write the response
ServerHandle(sendOk) ==
    LET frame == Head(inbox)
        r == process_request(frame, sendOk)
    IN
    /\ conn \in {"open", "eof"}
    /\ inbox # <<>>
    /\ IF frame.kind = "empty"
       THEN /\ inbox' = Tail(inbox)
            /\ UNCHANGED <<conn, outbox, consumed, paused, pause_until, transport_sends>>
       ELSE IF frame.kind = "not_utf8" \/ r.crashed
       THEN \* the exception leaves the loop; finally: writer.close()
            /\ conn' = "closed"
            /\ inbox' = <<>>
            /\ consumed' = consumed + 1
            /\ UNCHANGED <<outbox, paused, pause_until, transport_sends>>
       ELSE /\ Apply(r.outcome)
            /\ inbox' = Tail(inbox)
            /\ consumed' = consumed + 1
            /\ outbox' = Append(outbox, [request |-> frame, response |-> r.response])
            /\ UNCHANGED conn
    /\ UNCHANGED <<now, transports, sender_set, timestamps, last_reply, custom_cooldowns,
                   store, pc, cur, trace, gate, done, nEvents, rpc, nRpc>>
    /\ UNCHANGED extVars

\* the client closes its end: the server's read returns no data
ClientDisconnect ==
    /\ conn = "open"
    /\ conn' = "eof"
    /\ UNCHANGED <<now, transports, sender_set, rpc, nRpc, inbox, outbox, consumed>>
    /\ UNCHANGED pipeVars
    /\ UNCHANGED extVars

\* "if not data: break", then finally: writer.close()
ServerClose ==
    /\ conn = "eof"
    /\ inbox = <<>>
    /\ conn' = "closed"
    /\ UNCHANGED <<now, transports, sender_set, rpc, nRpc, inbox, outbox, consumed>>
    /\ UNCHANGED pipeVars
    /\ UNCHANGED extVars

\* ------------------------------------------------------------ IPC reader
\* The worker's stdout is a stream of bytes. "0" is the NUL delimiter, "L" and
\* "T" are the lead and the trail byte of a two-byte UTF-8 character (decoded:
\* "E"), every other byte is an ASCII character. The text "a", "bb" and "E"
\* are JSON objects with a registered type; "x" is not JSON.
NULL_CHAR == "0"
WorkerFrames == {<<"a">>, <<"b", "b">>, <<"L", "T">>, <<"x">>, <<" ">>, <<>>}
ValidTexts == {<<"a">>, <<"b", "b">>, <<"E">>}

\* bytes.decode('utf-8'): the text, or ok = FALSE for UnicodeDecodeError
RECURSIVE decode(_)
decode(chunk) ==
    IF chunk = <<>> THEN [ok |-> TRUE, text |-> <<>>]
    ELSE IF Head(chunk) = "T" THEN [ok |-> FALSE, text |-> <<>>]
    ELSE IF Head(chunk) = "L"
    THEN IF Len(chunk) >= 2 /\ chunk[2] = "T"
         THEN LET r == decode(SubSeq(chunk, 3, Len(chunk)))
              IN  [ok |-> r.ok, text |-> IF r.ok THEN <<"E">> \o r.text ELSE <<>>]
         ELSE [ok |-> FALSE, text |-> <<>>]
    ELSE LET r == decode(Tail(chunk))
         IN  [ok |-> r.ok, text |-> IF r.ok THEN <<Head(chunk)>> \o r.text ELSE <<>>]

has_delimiter(buf) == \E i \in 1..Len(buf) : buf[i] = NULL_CHAR
index(buf) == CHOOSE i \in 1..Len(buf) :
                 buf[i] = NULL_CHAR /\ \A j \in 1..(i - 1) : buf[j] # NULL_CHAR

\* str.strip()
RECURSIVE strip(_)
strip(str) ==
    IF str = <<>> THEN <<>>
    ELSE IF Head(str) = " " THEN strip(Tail(str))
    ELSE IF str[Len(str)] = " " THEN strip(SubSeq(str, 1, Len(str) - 1))
    ELSE str

\* json.loads(json_str) returns an object with a registered type
json_loads_ok(json_str) == strip(json_str) \in ValidTexts

\* _process_message letting the JSONDecodeError out
ipc_process_message_raises(json_str) ==
    [handler |-> json_loads_ok(json_str), escapes |-> ~json_loads_ok(json_str)]

\* _process_message(json_str): whether the handler is called, and whether an
\* exception leaves the method
ipc_process_message(json_str) ==
    [handler |-> json_loads_ok(json_str), escapes |-> FALSE]

\* where the loops of _read_messages go on with this buffer: the frame loop
\* while a delimiter is left, then "while self._running" and the next read
loop_head == IF ipc_running THEN "reading" ELSE "returned"
after_frame(buf) == IF has_delimiter(buf) THEN "scanning" ELSE loop_head

\* the worker writes one frame and its delimiter
WorkerWrite(f) ==
    /\ ~wire_eof
    /\ Len(written) < MaxFrames
    /\ wire' = wire \o f \o <<NULL_CHAR>>
    /\ written' = Append(written, f)
    /\ UNCHANGED <<wire_eof, ipc_buffer, ipc_running, ipc_pc, chunk_lost,
                   processed, dispatched, calls>>
    /\ UNCHANGED nonIpcVars

\* the worker exits or closes its stdout
WorkerClose ==
    /\ ~wire_eof
    /\ wire_eof' = TRUE
    /\ UNCHANGED <<wire, written, ipc_buffer, ipc_running, ipc_pc, chunk_lost,
                   processed, dispatched, calls>>
    /\ UNCHANGED nonIpcVars

\* chunk = await self.stdout.read(4096); self._buffer += chunk.decode('utf-8')
\* A chunk that does not decode raises into "except Exception": it is logged
\* and the loop goes on without it.
IpcRead(n) ==
    LET chunk == SubSeq(wire, 1, n)
        d == decode(chunk)
    IN
    /\ ipc_pc = "reading"
    /\ n \in 1..Len(wire)
    /\ wire' = SubSeq(wire, n + 1, Len(wire))
    /\ IF d.ok
       THEN /\ ipc_buffer' = ipc_buffer \o d.text
            /\ ipc_pc' = after_frame(ipc_buffer')
            /\ UNCHANGED chunk_lost
       ELSE /\ chunk_lost' = TRUE
            /\ ipc_pc' = loop_head
            /\ UNCHANGED ipc_buffer
    /\ UNCHANGED <<wire_eof, written, ipc_running, processed, dispatched, calls>>
    /\ UNCHANGED nonIpcVars

\* the read returns b'': "Node.js stdout closed", break. _read_messages
\* returns.
IpcReadEnds ==
    /\ ipc_pc = "reading"
    /\ wire = <<>>
    /\ wire_eof
    /\ ipc_pc' = "returned"
    /\ UNCHANGED <<wire, wire_eof, written, ipc_buffer, ipc_running, chunk_lost,
                   processed, dispatched, calls>>
    /\ UNCHANGED nonIpcVars

\* one pass of "while NULL_CHAR in self._buffer", up to the await of the handler
IpcScan ==
    LET null_idx == index(ipc_buffer)
        json_str == SubSeq(ipc_buffer, 1, null_idx - 1)
        rest == SubSeq(ipc_buffer, null_idx + 1, Len(ipc_buffer))
        r == ipc_process_message(json_str)
    IN
    /\ ipc_pc = "scanning"
    /\ ipc_buffer' = rest
    /\ IF strip(json_str) = <<>>
       THEN /\ ipc_pc' = after_frame(rest)
            /\ UNCHANGED <<processed, dispatched, calls>>
       ELSE /\ processed' = Append(processed, json_str)
            /\ IF r.handler
               THEN /\ dispatched' = Append(dispatched, json_str)
                    /\ calls' = Append(calls, <<"start", Len(dispatched) + 1>>)
                    /\ ipc_pc' = "handling"
               ELSE /\ ipc_pc' = IF r.escapes THEN loop_head ELSE after_frame(rest)
                    /\ UNCHANGED <<dispatched, calls>>
    /\ UNCHANGED <<wire, wire_eof, written, ipc_running, chunk_lost>>
    /\ UNCHANGED nonIpcVars

\* await handler(message.data or {}) returns or raises; a raise is caught in
\* _process_message
IpcHandlerReturns(raised) ==
    /\ ipc_pc = "handling"
    /\ calls' = Append(calls, <<IF raised THEN "raised" ELSE "return", Len(dispatched)>>)
    /\ ipc_pc' = after_frame(ipc_buffer)
    /\ UNCHANGED <<wire, wire_eof, written, ipc_buffer, ipc_running, chunk_lost,
                   processed, dispatched>>
    /\ UNCHANGED nonIpcVars



\* ------------------------------------------------------ agent lifecycle
\* run_agent: MultiTransportAgent.start creates one task per registered
\* transport and awaits asyncio.gather; when start has ended (returned,
\* raised or cancelled) the finally clause runs MultiTransportAgent.stop.
ipcFlags == <<ipc_running, ipc_pc, wire_eof>>

\* MultiTransportAgent.start up to "await asyncio.gather(*self._transport_tasks)"
AgentStart ==
    /\ agent_pc = "new"
    /\ agent_pc' = "gather"
    /\ task' = [p \in PlatformEnum |-> IF p \in transports THEN "created" ELSE "none"]
    /\ UNCHANGED <<t_running, ipc_set, process_set, os_proc, listener, start_result,
                   shutdown_requested, stop_pc, stop_log>>
    /\ UNCHANGED ipcFlags
    /\ UNCHANGED nonAgentVars

\* WhatsAppTransport.start up to "await self._ipc.start()": the worker is
\* spawned (NodeProcessManager.start), or spawning raises and the exception
\* leaves start and _run_transport
WhatsappStart(spawned) ==
    /\ task["whatsapp"] = "created"
    /\ t_running' = [t_running EXCEPT !["whatsapp"] = TRUE]
    /\ IF spawned
       THEN /\ process_set' = TRUE
            /\ os_proc' = "alive"
            /\ ipc_set' = TRUE
            /\ ipc_running' = TRUE
            /\ ipc_pc' = "reading"
            /\ task' = [task EXCEPT !["whatsapp"] = "running"]
       ELSE /\ task' = [task EXCEPT !["whatsapp"] = "failed"]
            /\ UNCHANGED <<process_set, os_proc, ipc_set, ipc_running, ipc_pc>>
    /\ UNCHANGED <<listener, agent_pc, start_result, shutdown_requested, stop_pc,
                   stop_log, wire_eof>>
    /\ UNCHANGED nonAgentVars

\* _read_messages has returned: _ipc.start(), WhatsAppTransport.start and
\* _run_transport return
WhatsappStartReturns ==
    /\ task["whatsapp"] = "running"
    /\ ipc_pc = "returned"
    /\ task' = [task EXCEPT !["whatsapp"] = "returned"]
    /\ UNCHANGED <<t_running, ipc_set, process_set, os_proc, listener, agent_pc,
                   start_result, shutdown_requested, stop_pc, stop_log>>
    /\ UNCHANGED ipcFlags
    /\ UNCHANGED nonAgentVars

\* IMessageTransport.start: the listener runs in a task of its own and start
\* returns; the listener polls, or raises because the database is missing
ImessageStart(db_exists) ==
    /\ task["imessage"] = "created"
    /\ t_running' = [t_running EXCEPT !["imessage"] = TRUE]
    /\ listener' = IF db_exists THEN "polling" ELSE "failed"
    /\ task' = [task EXCEPT !["imessage"] = "returned"]
    /\ UNCHANGED <<ipc_set, process_set, os_proc, agent_pc, start_result,
                   shutdown_requested, stop_pc, stop_log>>
    /\ UNCHANGED ipcFlags
    /\ UNCHANGED nonAgentVars

\* the worker process exits; its stdout reaches end-of-stream
WorkerExit ==
    /\ os_proc = "alive"
    /\ os_proc' = "exited"
    /\ wire_eof' = TRUE
    /\ UNCHANGED <<task, t_running, ipc_set, process_set, listener, agent_pc,
                   start_result, shutdown_requested, stop_pc, stop_log>>
    /\ UNCHANGED <<ipc_running, ipc_pc>>
    /\ UNCHANGED nonAgentVars

\* gather returns when every task has returned
GatherReturns ==
    /\ agent_pc = "gather"
    /\ \A p \in transports : task[p] = "returned"
    /\ start_result' = "returned"
    /\ agent_pc' = "stop_whatsapp"
    /\ UNCHANGED <<task, t_running, ipc_set, process_set, os_proc, listener,
                   shutdown_requested, stop_pc, stop_log>>
    /\ UNCHANGED ipcFlags
    /\ UNCHANGED nonAgentVars

\* gather raises the exception of a task as soon as the task has failed; start
\* catches CancelledError only
GatherRaises ==
    /\ agent_pc = "gather"
    /\ \E p \in transports : task[p] = "failed"
    /\ start_result' = "raised"
    /\ agent_pc' = "stop_whatsapp"
    /\ UNCHANGED <<task, t_running, ipc_set, process_set, os_proc, listener,
                   shutdown_requested, stop_pc, stop_log>>
    /\ UNCHANGED ipcFlags
    /\ UNCHANGED nonAgentVars

\* signal_handler: request_shutdown and cancel every task. The reader catches
\* CancelledError and returns; a task not yet started is cancelled.
Signal ==
    /\ agent_pc = "gather"
    /\ shutdown_requested' = TRUE
    /\ start_result' = "cancelled"
    /\ agent_pc' = "stop_whatsapp"
    /\ task' = [p \in PlatformEnum |->
                  IF task[p] = "created" THEN "cancelled"
                  ELSE IF task[p] = "running" THEN "returned" ELSE task[p]]
    /\ ipc_pc' = IF task["whatsapp"] = "running" THEN "returned" ELSE ipc_pc
    /\ listener' = IF listener = "polling" THEN "cancelled" ELSE listener
    /\ UNCHANGED <<t_running, ipc_set, process_set, os_proc, stop_pc, stop_log>>
    /\ UNCHANGED <<ipc_running, wire_eof>>
    /\ UNCHANGED nonAgentVars

\* MultiTransportAgent.stop, first transport: WhatsAppTransport.stop up to the
\* first await of NodeProcessManager.stop. "if not self.process: return".
WhatsappStop ==
    /\ agent_pc = "stop_whatsapp"
    /\ t_running' = [t_running EXCEPT !["whatsapp"] = FALSE]
    /\ ipc_running' = IF ipc_set THEN FALSE ELSE ipc_running
    /\ IF ~process_set
       THEN /\ stop_log' = <<<<"noop">>>>
            /\ ipc_set' = FALSE
            /\ agent_pc' = "stop_imessage"
            /\ UNCHANGED stop_pc
       ELSE /\ stop_log' = <<>>
            /\ stop_pc' = "shutdown"
            /\ agent_pc' = "stop_process"
            /\ UNCHANGED ipc_set
    /\ UNCHANGED <<task, process_set, os_proc, listener, start_result,
                   shutdown_requested>>
    /\ UNCHANGED <<ipc_pc, wire_eof>>
    /\ UNCHANGED nonAgentVars

\* wait_for(self.ipc.send_command(IPCCommand(action="shutdown")), timeout=2.0):
\* the command is sent, the send raises, or the wait times out
PmShutdown(outcome) ==
    /\ stop_pc = "shutdown"
    /\ stop_log' = Append(stop_log, <<"shutdown", outcome>>)
    /\ stop_pc' = "wait5"
    /\ UNCHANGED <<task, t_running, ipc_set, process_set, os_proc, listener, agent_pc,
                   start_result, shutdown_requested>>
    /\ UNCHANGED ipcFlags
    /\ UNCHANGED nonAgentVars

\* process.wait() returns: the process reference is cleared, stop returns and
\* WhatsAppTransport.stop clears _ipc
PmWaitReturns ==
    /\ stop_pc \in {"wait5", "wait2", "wait"}
    /\ os_proc = "exited"
    /\ process_set' = FALSE
    /\ ipc_set' = FALSE
    /\ stop_pc' = "idle"
    /\ agent_pc' = "stop_imessage"
    /\ UNCHANGED <<task, t_running, os_proc, listener, start_result,
                   shutdown_requested, stop_log>>
    /\ UNCHANGED ipcFlags
    /\ UNCHANGED nonAgentVars

\* the wait after terminate skipped: the process is killed at once
PmWait5TimeoutKills ==
    /\ stop_pc = "wait5"
    /\ os_proc = "alive"
    /\ stop_log' = Append(stop_log, <<"kill">>)
    /\ os_proc' = "exited"
    /\ wire_eof' = TRUE
    /\ stop_pc' = "wait"
    /\ UNCHANGED <<task, t_running, ipc_set, process_set, listener, agent_pc,
                   start_result, shutdown_requested>>
    /\ UNCHANGED <<ipc_running, ipc_pc>>
    /\ UNCHANGED nonAgentVars

\* the 5 s wait times out: self.process.terminate()
PmWait5Timeout ==
    /\ stop_pc = "wait5"
    /\ os_proc = "alive"
    /\ stop_log' = Append(stop_log, <<"terminate">>)
    /\ stop_pc' = "wait2"
    /\ UNCHANGED <<task, t_running, ipc_set, process_set, os_proc, listener, agent_pc,
                   start_result, shutdown_requested>>
    /\ UNCHANGED ipcFlags
    /\ UNCHANGED nonAgentVars

\* the 2 s wait times out: self.process.kill(), which ends the process
PmWait2Timeout ==
    /\ stop_pc = "wait2"
    /\ os_proc = "alive"
    /\ stop_log' = Append(stop_log, <<"kill">>)
    /\ os_proc' = "exited"
    /\ wire_eof' = TRUE
    /\ stop_pc' = "wait"
    /\ UNCHANGED <<task, t_running, ipc_set, process_set, listener, agent_pc,
                   start_result, shutdown_requested>>
    /\ UNCHANGED <<ipc_running, ipc_pc>>
    /\ UNCHANGED nonAgentVars

\* MultiTransportAgent.stop, second transport: IMessageTransport.stop
ImessageStop ==
    /\ agent_pc = "stop_imessage"
    /\ agent_pc' = "cancel_tasks"
    /\ IF "imessage" \in transports
       THEN /\ t_running' = [t_running EXCEPT !["imessage"] = FALSE]
            /\ listener' = IF listener = "polling" THEN "cancelled" ELSE listener
       ELSE UNCHANGED <<t_running, listener>>
    /\ UNCHANGED <<task, ipc_set, process_set, os_proc, start_result,
                   shutdown_requested, stop_pc, stop_log>>
    /\ UNCHANGED ipcFlags
    /\ UNCHANGED nonAgentVars

\* MultiTransportAgent.stop: "for task in self._transport_tasks: task.cancel()"
CancelTasks ==
    /\ agent_pc = "cancel_tasks"
    /\ agent_pc' = "stopped"
    /\ task' = [p \in PlatformEnum |->
                  IF task[p] = "created" THEN "cancelled"
                  ELSE IF task[p] = "running" THEN "returned" ELSE task[p]]
    /\ ipc_pc' = IF task["whatsapp"] = "running" THEN "returned" ELSE ipc_pc
    /\ UNCHANGED <<t_running, ipc_set, process_set, os_proc, listener, start_result,
                   shutdown_requested, stop_pc, stop_log>>
    /\ UNCHANGED <<ipc_running, wire_eof>>
    /\ UNCHANGED nonAgentVars


\* ------------------------------------------------------ iMessage listener
\* _fetch_new_messages: the rows with ROWID > last_rowid in ascending order,
\* at most PollLimit of them; rows without text are skipped after the LIMIT
RECURSIVE fetch_new_messages(_, _, _)
fetch_new_messages(rows, from, n) ==
    IF n = 0 \/ from > Len(rows) THEN <<>>
    ELSE IF rows[from]
         THEN <<from>> \o fetch_new_messages(rows, from + 1, n - 1)
         ELSE fetch_new_messages(rows, from + 1, n - 1)

Max2(a, b) == IF a > b THEN a ELSE b

\* Messages.app stores a row, with text or without
DbInsert(has_text) ==
    /\ Len(db) < MaxRows
    /\ db' = Append(db, has_text)
    /\ UNCHANGED <<last_rowid, poll_batch, poll_pc, poll_calls>>
    /\ UNCHANGED nonPollVars

\* _poll_loop wakes up and fetches; with no message it goes back to sleep
PollFetch ==
    /\ poll_pc = "sleeping"
    /\ poll_batch' = fetch_new_messages(db, last_rowid + 1, PollLimit)
    /\ poll_batch' # <<>>
    /\ poll_pc' = "delivering"
    /\ UNCHANGED <<db, last_rowid, poll_calls>>
    /\ UNCHANGED nonPollVars

\* the for loop going on to the next message without awaiting the callback
PollDeliverNoAwait ==
    /\ poll_pc = "delivering"
    /\ poll_calls' = Append(poll_calls, <<"start", Head(poll_batch)>>)
    /\ last_rowid' = Max2(last_rowid, Head(poll_batch))
    /\ poll_batch' = Tail(poll_batch)
    /\ poll_pc' = IF Tail(poll_batch) = <<>> THEN "sleeping" ELSE "delivering"
    /\ UNCHANGED db
    /\ UNCHANGED nonPollVars

\* for msg in messages: await self._message_callback(msg)
PollDeliver ==
    /\ poll_pc = "delivering"
    /\ poll_calls' = Append(poll_calls, <<"start", Head(poll_batch)>>)
    /\ poll_pc' = "in_callback"
    /\ UNCHANGED <<db, last_rowid, poll_batch>>
    /\ UNCHANGED nonPollVars

\* the callback returns (IMessageTransport._on_message lets no exception
\* out): self._last_rowid = max(self._last_rowid, msg.rowid), next message
PollCallbackReturns ==
    /\ poll_pc = "in_callback"
    /\ poll_calls' = Append(poll_calls, <<"return", Head(poll_batch)>>)
    /\ last_rowid' = Max2(last_rowid, Head(poll_batch))
    /\ poll_batch' = Tail(poll_batch)
    /\ poll_pc' = IF Tail(poll_batch) = <<>> THEN "sleeping" ELSE "delivering"
    /\ UNCHANGED db
    /\ UNCHANGED nonPollVars


\* ------------------------------------------- safety components, any config
\* RateLimiter and CooldownManager on their own, with the capacity, the
\* window and the default cooldown they were constructed with.
NoOp == [op |-> "none", chat |-> "", answer |-> FALSE, n |-> 0]
Op(op, chat, answer, n) == [op |-> op, chat |-> chat, answer |-> answer, n |-> n]

\* _cleanup_old_entries dropping the ticks of age window_seconds as well
RECURSIVE rl_cleanup_inclusive(_, _, _)
rl_cleanup_inclusive(ts, t, w) ==
    IF ts # <<>> /\ Head(ts) <= t - w
    THEN rl_cleanup_inclusive(Tail(ts), t, w)
    ELSE ts

\* cutoff = time.time() - self.window_seconds
\* while self._timestamps and self._timestamps[0] < cutoff: popleft()
RECURSIVE rl_cleanup(_, _, _)
rl_cleanup(ts, t, w) ==
    IF ts # <<>> /\ Head(ts) < t - w
    THEN rl_cleanup(Tail(ts), t, w)
    ELSE ts

Max0(n) == IF n > 0 THEN n ELSE 0

\* the state the safety components leave alone
nonSafetyVars == <<transports, sender_set, rpc, nRpc, paused, pause_until, store,
                   transport_sends, pc, cur, trace, gate, done, nEvents, connVars,
                   ipcVars, agentVars, pollVars, policyVars, quietVars, codecVars,
                   max_replies, window_seconds, default_cooldown>>

\* time passes
ClockTick ==
    /\ now < MaxClock
    /\ now' = now + 1
    /\ safety_op' = NoOp
    /\ UNCHANGED <<timestamps, last_reply, custom_cooldowns>>
    /\ UNCHANGED nonSafetyVars

\* RateLimiter.can_reply
RlCanReply ==
    LET kept == rl_cleanup(timestamps, now, window_seconds) IN
    /\ timestamps' = kept
    /\ safety_op' = Op("can_reply", "", Len(kept) < max_replies,
                       Len(timestamps) - Len(kept))
    /\ UNCHANGED <<now, last_reply, custom_cooldowns>>
    /\ UNCHANGED nonSafetyVars

\* RateLimiter.record_reply
RlRecordReply ==
    LET kept == rl_cleanup(timestamps, now, window_seconds) IN
    /\ Len(kept) < MaxTicks
    /\ timestamps' = Append(kept, now)
    /\ safety_op' = Op("record_reply", "", FALSE, Len(timestamps) - Len(kept))
    /\ UNCHANGED <<now, last_reply, custom_cooldowns>>
    /\ UNCHANGED nonSafetyVars

\* RateLimiter.get_remaining
RlGetRemaining ==
    LET kept == rl_cleanup(timestamps, now, window_seconds) IN
    /\ timestamps' = kept
    /\ safety_op' = Op("get_remaining", "", FALSE, Max0(max_replies - Len(kept)))
    /\ UNCHANGED <<now, last_reply, custom_cooldowns>>
    /\ UNCHANGED nonSafetyVars

\* get_cooldown returning the default for every chat
cd_get_cooldown_default(cc, chat, d) == d

\* self._custom_cooldowns.get(chat_id, self.default_cooldown)
cd_get_cooldown(cc, chat, d) ==
    IF IsNone(cc[chat]) THEN d ELSE Val(cc[chat])

\* CooldownManager.is_on_cooldown
cd_is_on_cooldown(lr, cc, chat, t, d) ==
    IF IsNone(lr[chat]) THEN FALSE
    ELSE (t - Val(lr[chat])) < cd_get_cooldown(cc, chat, d)

\* CooldownManager.set_cooldown
CdSetCooldown(chat, seconds) ==
    /\ custom_cooldowns' = [custom_cooldowns EXCEPT ![chat] = Some(seconds)]
    /\ safety_op' = Op("set_cooldown", chat, FALSE, seconds)
    /\ UNCHANGED <<now, timestamps, last_reply>>
    /\ UNCHANGED nonSafetyVars

\* CooldownManager.record_reply
CdRecordReply(chat) ==
    /\ last_reply' = [last_reply EXCEPT ![chat] = Some(now)]
    /\ safety_op' = Op("cd_record_reply", chat, FALSE, 0)
    /\ UNCHANGED <<now, timestamps, custom_cooldowns>>
    /\ UNCHANGED nonSafetyVars

\* CooldownManager.is_on_cooldown
CdIsOnCooldown(chat) ==
    /\ safety_op' = Op("is_on_cooldown", chat,
                       cd_is_on_cooldown(last_reply, custom_cooldowns, chat, now,
                                         default_cooldown), 0)
    /\ UNCHANGED <<now, timestamps, last_reply, custom_cooldowns>>
    /\ UNCHANGED nonSafetyVars


\* -------------------------------------------------------- policy evaluator
ReplyPolicy == {"always", "selective", "never"}
BotName == <<"m", "a", "x">>          \* bot_name.lower(), a short name

\* str.lower on the characters used
lower_char(c) ==
    CASE c = "M" -> "m" [] c = "A" -> "a" [] c = "X" -> "x" [] OTHER -> c
lower(text) == [i \in 1..Len(text) |-> lower_char(text[i])]

\* needle in hay
Contains(hay, needle) ==
    \E i \in 1..(Len(hay) - Len(needle) + 1) :
        SubSeq(hay, i, i + Len(needle) - 1) = needle

\* PolicyEvaluator._check_mentioned
check_mentioned(text) ==
    IF text = <<>> THEN FALSE
    ELSE IF Contains(lower(text), <<"@">> \o BotName) THEN TRUE
    ELSE IF Contains(lower(text), BotName) THEN TRUE
    ELSE FALSE

\* a conditions dict: every key is absent (None) or carries a value
NoConditions ==
    [platform |-> None, is_dm |-> None, is_group |-> None, role |-> None,
     group_category |-> None, is_reply_to_bot |-> None, is_mentioned |-> None]

\* PolicyEvaluator._matches_conditions
matches_conditions(rule, context) ==
    LET c == rule.conditions IN
    IF ~IsNone(c.platform) /\ Val(c.platform) # context.platform THEN FALSE
    ELSE IF ~IsNone(c.is_dm) /\ Val(c.is_dm) # context.is_dm THEN FALSE
    ELSE IF ~IsNone(c.is_group) /\ Val(c.is_group) # context.is_group THEN FALSE
    ELSE IF ~IsNone(c.role) /\ Val(c.role) # context.role THEN FALSE
    ELSE IF ~IsNone(c.group_category) /\ IsNone(context.group_category) THEN FALSE
    ELSE IF ~IsNone(c.group_category)
               /\ Val(c.group_category) # Val(context.group_category) THEN FALSE
    ELSE IF ~IsNone(c.is_reply_to_bot)
               /\ Val(c.is_reply_to_bot) # context.is_reply_to_bot THEN FALSE
    ELSE IF ~IsNone(c.is_mentioned)
               /\ Val(c.is_mentioned) # context.is_mentioned THEN FALSE
    ELSE TRUE

\* PolicyEvaluator._should_respond_for_action
should_respond_for_action(action, is_mentioned, is_reply_to_bot) ==
    IF action = "always" THEN TRUE
    ELSE IF action = "never" THEN FALSE
    ELSE IF action = "selective" THEN is_mentioned \/ is_reply_to_bot
    ELSE FALSE

PolicyDecision(should_respond, reason, rule_name, action) ==
    [should_respond |-> should_respond, reason |-> reason,
     rule_name |-> rule_name, action |-> action]

\* the rule loop taking the last matching rule
RECURSIVE evaluate_rules_last(_, _)
evaluate_rules_last(rules, context) ==
    IF rules = <<>> THEN None
    ELSE LET later == evaluate_rules_last(Tail(rules), context) IN
         IF ~IsNone(later) THEN later
         ELSE IF matches_conditions(Head(rules), context) THEN Some(Head(rules))
         ELSE None

\* for rule in self._rules: if self._matches_conditions(rule, context): ...
RECURSIVE evaluate_rules(_, _)
evaluate_rules(rules, context) ==
    IF rules = <<>> THEN None
    ELSE IF matches_conditions(Head(rules), context) THEN Some(Head(rules))
    ELSE evaluate_rules(Tail(rules), context)

\* PolicyEvaluator.evaluate: the context after "context.is_mentioned =
\* is_mentioned" and the decision
\* evaluate leaving the context's mention flag as it found it
keep_mention(context0) == context0

\* is_mentioned = self._check_mentioned(context.text)
\* context.is_mentioned = is_mentioned
with_mention(context0) ==
    [context0 EXCEPT !.is_mentioned = check_mentioned(context0.text)]

evaluate(rules, fallback, context0) ==
    LET is_mentioned == check_mentioned(context0.text)
        context == with_mention(context0)
        hit == evaluate_rules(rules, context)
    IN  IF ~IsNone(hit)
        THEN PolicyDecision(
                 should_respond_for_action(Val(hit).action, is_mentioned,
                                           context.is_reply_to_bot),
                 "rule:" \o Val(hit).name, Some(Val(hit).name), Val(hit).action)
        ELSE PolicyDecision(
                 should_respond_for_action(fallback, is_mentioned,
                                           context.is_reply_to_bot),
                 "fallback", None, fallback)

\* _load_config: the entries of `rules` in file order; an entry whose action
\* is no ReplyPolicy value raises ValueError in from_dict and is skipped
RECURSIVE load_rules(_)
load_rules(rules_data) ==
    IF rules_data = <<>> THEN <<>>
    ELSE IF Head(rules_data).action \in ReplyPolicy
         THEN <<Head(rules_data)>> \o load_rules(Tail(rules_data))
         ELSE load_rules(Tail(rules_data))

Rule(name, conditions, action) ==
    [name |-> name, conditions |-> conditions, action |-> action]

\* entries a policies file can hold
RulePool ==
    { Rule("dm_always", [NoConditions EXCEPT !.is_dm = Some(TRUE)], "always"),
      Rule("mentioned", [NoConditions EXCEPT !.is_group = Some(TRUE),
                                             !.is_mentioned = Some(TRUE)], "always"),
      Rule("work_never", [NoConditions EXCEPT !.group_category = Some("work")], "never"),
      Rule("family", [NoConditions EXCEPT !.role = Some("family"),
                                          !.platform = Some("imessage")], "selective"),
      Rule("replies", [NoConditions EXCEPT !.is_reply_to_bot = Some(TRUE)], "never"),
      Rule("any", NoConditions, "never"),
      Rule("typo", NoConditions, "allways") }

RulesData == UNION {[1..n -> RulePool] : n \in 0..MaxRules}

PolicyTexts ==
    { <<>>, <<"h", "i">>, <<"M", "a", "x">>, <<"h", "@", "m", "A", "X", "!">>,
      <<"m", "a">> }

\* PolicyEvaluator.create_context: is_dm = not is_group
Contexts ==
    { [text |-> text, is_dm |-> ~g, is_group |-> g, role |-> role,
       group_category |-> cat, platform |-> platform, is_reply_to_bot |-> r,
       is_mentioned |-> FALSE] :
         text \in PolicyTexts, g \in BOOLEAN, role \in {"family", "unknown"},
         cat \in {None, Some("work")}, platform \in {"whatsapp", "imessage"},
         r \in BOOLEAN }

\* everything but the decision
nonPolicyVars == <<now, transports, sender_set, rpc, nRpc, pipeVars, connVars, ipcVars,
                   agentVars, pollVars, safetyVars, quietVars, codecVars, policy_rules,
                   fallback_action>>

\* decision = evaluator.evaluate(context)
PolicyEvaluate ==
    /\ ~IsNone(policy_ctx)
    /\ IsNone(policy_decision)
    /\ policy_decision' = Some(evaluate(policy_rules, fallback_action, Val(policy_ctx)))
    /\ policy_ctx' = Some(with_mention(Val(policy_ctx)))
    /\ UNCHANGED nonPolicyVars


\* ------------------------------------------------- quiet hours, any range
DayHours == 0..23                    \* datetime.hour
nonQuietVars == <<now, transports, sender_set, rpc, nRpc, pipeVars, connVars, ipcVars,
                  agentVars, pollVars, safetyVars, policyVars, codecVars>>

\* is_quiet_time with the end hour inside the quiet range
qh_is_quiet_time_inclusive(enabled, start, end, current_hour) ==
    IF ~enabled THEN FALSE
    ELSE IF start <= end
    THEN start <= current_hour /\ current_hour <= end
    ELSE current_hour >= start \/ current_hour <= end

\* QuietHoursChecker.is_quiet_time
qh_is_quiet_time(enabled, start, end, current_hour) ==
    IF ~enabled THEN FALSE
    ELSE IF start <= end
    THEN start <= current_hour /\ current_hour < end
    ELSE current_hour >= start \/ current_hour < end

\* is_quiet_time(check_time) at any hour of the day
QhIsQuietTime(current_hour) ==
    /\ quiet_answer' = Some([hour |-> current_hour,
                             quiet |-> qh_is_quiet_time(qh_enabled, start_hour,
                                                        end_hour, current_hour)])
    /\ UNCHANGED <<start_hour, end_hour, qh_enabled>>
    /\ UNCHANGED nonQuietVars


\* ------------------------------------------------------- command framing
\* send_command: json.dumps(message) + NULL_CHAR. The JSON text is kept to
\* what the round trip depends on: the object's braces, the strings with
\* their escapes, and whether the payload member is there. A command's
\* payload is None or a dict, and the dict is empty or holds one text.
Quote == "\""
Backslash == "\\"
CommandChars == {"a", NULL_CHAR, Quote, Backslash}
CommandStrings == UNION {[1..n -> CommandChars] : n \in 0..MaxString}
Payloads == {[text |-> None]} \cup {[text |-> Some(s)] : s \in CommandStrings}
IPCCommand(action, payload) == [action |-> action, payload |-> payload]
Commands ==
    {IPCCommand(action, payload) :
        action \in CommandStrings, payload \in {None} \cup {Some(d) : d \in Payloads}}

nonCodecVars == <<now, transports, sender_set, rpc, nRpc, pipeVars, connVars, ipcVars,
                  agentVars, pollVars, safetyVars, policyVars, quietVars>>

\* json.dumps of a string: the quote and the backslash are escaped, the NUL
\* character is written as the escape \u0000 (here backslash, "u")
RECURSIVE json_escape(_)
json_escape(str) ==
    IF str = <<>> THEN <<>>
    ELSE (IF Head(str) = Quote THEN <<Backslash, Quote>>
          ELSE IF Head(str) = Backslash THEN <<Backslash, Backslash>>
          ELSE IF Head(str) = NULL_CHAR THEN <<Backslash, "u">>
          ELSE <<Head(str)>>) \o json_escape(Tail(str))

json_string(str) == <<Quote>> \o json_escape(str) \o <<Quote>>

json_object(dict) ==
    <<"{">> \o (IF IsNone(dict.text) THEN <<>> ELSE json_string(Val(dict.text)))
            \o <<"}">>

\* "if command.payload": None and the empty dict are both false
payload_given(payload) == ~IsNone(payload) /\ ~IsNone(Val(payload).text)

\* {"action": command.action, **({"payload": command.payload} if command.payload else {})}
message_of(cmd) ==
    [action |-> cmd.action,
     payload |-> IF payload_given(cmd.payload) THEN cmd.payload ELSE None]

json_dumps(message) ==
    <<"{">> \o json_string(message.action)
            \o (IF IsNone(message.payload) THEN <<>>
                ELSE <<",">> \o json_object(Val(message.payload)))
            \o <<"}">>

\* json_str = json.dumps(message) + NULL_CHAR
send_command(cmd) == json_dumps(message_of(cmd)) \o <<NULL_CHAR>>

\* the worker's side: the characters of a JSON string starting after its
\* opening quote, unescaped, and the position after its closing quote
RECURSIVE json_read_string(_, _, _)
json_read_string(text, i, acc) ==
    IF i > Len(text) THEN [ok |-> FALSE, value |-> acc, next |-> i]
    ELSE IF text[i] = Quote THEN [ok |-> TRUE, value |-> acc, next |-> i + 1]
    ELSE IF text[i] = Backslash
    THEN IF i + 1 > Len(text) THEN [ok |-> FALSE, value |-> acc, next |-> i]
         ELSE json_read_string(text, i + 2,
                  Append(acc, IF text[i + 1] = "u" THEN NULL_CHAR ELSE text[i + 1]))
    ELSE json_read_string(text, i + 1, Append(acc, text[i]))

InvalidCommand == [action |-> <<"?">>, payload |-> None]

\* JSON.parse of the frame's text: {action, payload?}
json_parse(text) ==
    IF Len(text) < 3 \/ text[1] # "{" \/ text[2] # Quote THEN InvalidCommand
    ELSE LET a == json_read_string(text, 3, <<>>) IN
         IF ~a.ok \/ a.next > Len(text) THEN InvalidCommand
         ELSE IF text[a.next] = "}" THEN IPCCommand(a.value, None)
         ELSE IF text[a.next] # "," \/ a.next + 2 > Len(text) THEN InvalidCommand
         ELSE IF text[a.next + 2] = "}"
              THEN IPCCommand(a.value, Some([text |-> None]))
         ELSE LET t == json_read_string(text, a.next + 3, <<>>) IN
              IF ~t.ok THEN InvalidCommand
              ELSE IPCCommand(a.value, Some([text |-> Some(t.value)]))

\* the worker cuts the frame at the first NUL byte and parses what precedes it
decode_frame(bytes) ==
    IF ~has_delimiter(bytes) THEN InvalidCommand
    ELSE json_parse(SubSeq(bytes, 1, index(bytes) - 1))

\* IPCHandler.send_command(command)
SendCommand(cmd) ==
    /\ IsNone(command)
    /\ command' = Some(cmd)
    /\ stdin_bytes' = Some(send_command(cmd))
    /\ UNCHANGED received
    /\ UNCHANGED nonCodecVars

\* the worker reads the frame
WorkerDecode ==
    /\ ~IsNone(stdin_bytes)
    /\ IsNone(received)
    /\ received' = Some(decode_frame(Val(stdin_bytes)))
    /\ UNCHANGED <<command, stdin_bytes>>
    /\ UNCHANGED nonCodecVars

\* ------------------------------------------------------------- environment
Tick ==
    /\ now < MaxTime
    /\ now' = now + 1
    /\ UNCHANGED <<transports, sender_set, rpc, nRpc>>
    /\ UNCHANGED pipeVars
    /\ UNCHANGED connVars
    /\ UNCHANGED extVars

IpcInit ==
    /\ wire = <<>>
    /\ wire_eof = FALSE
    /\ written = <<>>
    /\ ipc_buffer = <<>>
    /\ ipc_running = TRUE
    /\ ipc_pc = "reading"
    /\ chunk_lost = FALSE
    /\ processed = <<>>
    /\ dispatched = <<>>
    /\ calls = <<>>

\* IMessageDBListener.__init__ with an empty message table
PollInit ==
    /\ db = <<>>
    /\ last_rowid = 0
    /\ poll_batch = <<>>
    /\ poll_pc = "sleeping"
    /\ poll_calls = <<>>

\* QuietHoursChecker.__init__ with the default hours; no call made
QuietInit ==
    /\ start_hour = QuietStart
    /\ end_hour = QuietEnd
    /\ qh_enabled = TRUE
    /\ quiet_answer = None

\* no command sent to the worker
CodecInit ==
    /\ command = None
    /\ stdin_bytes = None
    /\ received = None

\* PolicyEvaluator.__init__ with no policies file; no context evaluated
PolicyInit ==
    /\ policy_rules = <<>>
    /\ fallback_action = "selective"
    /\ policy_ctx = None
    /\ policy_decision = None
    /\ QuietInit
    /\ CodecInit

\* RateLimiter and CooldownManager as the agent constructs them
ConfigInit ==
    /\ max_replies = MaxReplies
    /\ window_seconds = WindowSeconds
    /\ default_cooldown = DefaultCooldown
    /\ safety_op = NoOp
    /\ PolicyInit

AgentInit ==
    /\ task = [p \in PlatformEnum |-> "none"]
    /\ t_running = [p \in PlatformEnum |-> FALSE]
    /\ ipc_set = FALSE
    /\ process_set = FALSE
    /\ os_proc = "none"
    /\ listener = "none"
    /\ agent_pc = "new"
    /\ start_result = "none"
    /\ shutdown_requested = FALSE
    /\ stop_pc = "idle"
    /\ stop_log = <<>>

PipelineInit ==
    /\ now = 0
    /\ paused = FALSE
    /\ pause_until = None
    /\ timestamps = <<>>
    /\ last_reply = [c \in Chats |-> None]
    /\ custom_cooldowns = [c \in Chats |-> None]
    /\ store = <<>>
    /\ transports \in {{"whatsapp"}, {"whatsapp", "imessage"}}
    /\ sender_set \in BOOLEAN
    /\ transport_sends = [p \in PlatformEnum |-> 0]
    /\ pc = [t \in Tasks |-> "idle"]
    /\ cur = [t \in Tasks |-> Idle]
    /\ trace = [t \in Tasks |-> <<>>]
    /\ gate = NoGate
    /\ done = NoCall
    /\ nEvents = 0
    /\ rpc = NoExchange
    /\ nRpc = 0
    /\ conn = "none"
    /\ inbox = <<>>
    /\ outbox = <<>>
    /\ consumed = 0

Init == PipelineInit /\ IpcInit /\ AgentInit /\ PollInit /\ ConfigInit

Next ==
    \/ \E t \in Tasks, ts \in EventTimes(now) :
       \E data \in Events(t, ts), hour \in Hours, respond \in BOOLEAN, lastSelf \in BOOLEAN :
          ProcessMessage(t, data, hour, respond, lastSelf)
    \/ \E t \in Tasks, response \in Texts : GenerateReturns(t, response)
    \/ \E t \in Tasks, success \in BOOLEAN : SendReturns(t, success)
    \/ \E req \in ClientRequests, sendOk \in BOOLEAN : RpcCall(req, sendOk)
    \/ Tick

Spec == Init /\ [][Next]_vars

\* The message database outlives the process: the pipeline started over a
\* database that already holds an exchange in g1, the counters starting empty.
History == <<Message("g1", FALSE, 0, "whatsapp"), Message("g1", TRUE, 1, "whatsapp")>>

InitHistory ==
    /\ now = 1
    /\ store = History
    /\ paused = FALSE
    /\ pause_until = None
    /\ timestamps = <<>>
    /\ last_reply = [c \in Chats |-> None]
    /\ custom_cooldowns = [c \in Chats |-> None]
    /\ transports \in {{"whatsapp"}, {"whatsapp", "imessage"}}
    /\ sender_set \in BOOLEAN
    /\ transport_sends = [p \in PlatformEnum |-> 0]
    /\ pc = [t \in Tasks |-> "idle"]
    /\ cur = [t \in Tasks |-> Idle]
    /\ trace = [t \in Tasks |-> <<>>]
    /\ gate = NoGate
    /\ done = NoCall
    /\ nEvents = 0
    /\ rpc = NoExchange
    /\ nRpc = 0
    /\ conn = "none"
    /\ inbox = <<>>
    /\ outbox = <<>>
    /\ consumed = 0
    /\ IpcInit /\ AgentInit /\ PollInit /\ ConfigInit

SpecHistory == InitHistory /\ [][Next]_vars

\* the control plane alone: a raw client on one connection, and the clock
NextRPC ==
    \/ ClientConnect
    \/ \E frame \in Frames : ClientSend(frame)
    \/ \E sendOk \in BOOLEAN : ServerHandle(sendOk)
    \/ ClientDisconnect
    \/ ServerClose
    \/ Tick

SpecRPC == Init /\ [][NextRPC]_vars

\* the worker's stdout and the reader of the worker-backed transport
InitIPC ==
    /\ PipelineInit /\ IpcInit /\ AgentInit /\ PollInit /\ ConfigInit
    /\ transports = {"whatsapp"} /\ sender_set

NextIPC ==
    \/ \E f \in WorkerFrames : WorkerWrite(f)
    \/ WorkerClose
    \/ \E n \in 1..MaxChunk : IpcRead(n)
    \/ IpcReadEnds
    \/ IpcScan
    \/ \E raised \in BOOLEAN : IpcHandlerReturns(raised)

SpecIPC == InitIPC /\ [][NextIPC]_vars

\* Both transports receiving: the IPC reader of the WhatsApp worker and the
\* poll loop of the iMessage listener, each a task of the same event loop.
\* The listener starts from the highest ROWID present (start, _get_max_rowid).
InitEvents ==
    /\ PipelineInit /\ IpcInit /\ AgentInit /\ ConfigInit
    /\ transports = {"whatsapp", "imessage"} /\ sender_set
    /\ db \in {<<>>, <<TRUE>>}
    /\ last_rowid = Len(db)
    /\ poll_batch = <<>>
    /\ poll_pc = "sleeping"
    /\ poll_calls = <<>>

NextEvents ==
    \/ \E f \in {<<"a">>, <<"x">>} : WorkerWrite(f)
    \/ \E n \in {1, MaxChunk} : IpcRead(n)
    \/ IpcScan
    \/ \E raised \in BOOLEAN : IpcHandlerReturns(raised)
    \/ \E has_text \in BOOLEAN : DbInsert(has_text)
    \/ PollFetch
    \/ PollDeliver
    \/ PollCallbackReturns

SpecEvents == InitEvents /\ [][NextEvents]_vars


\* The listener kept running: the poll loop wakes up after every sleep, goes
\* through the batch it fetched, and every callback returns.
SpecPollLive ==
    /\ InitEvents
    /\ [][NextEvents]_vars
    /\ WF_vars(PollFetch)
    /\ WF_vars(PollDeliver)
    /\ WF_vars(PollCallbackReturns)

\* A rate limiter of any capacity and window, called at any times
InitRate ==
    /\ PipelineInit /\ IpcInit /\ AgentInit /\ PollInit
    /\ transports = {"whatsapp"} /\ sender_set
    /\ max_replies \in 1..MaxCapacity
    /\ window_seconds \in 0..MaxWindow
    /\ default_cooldown = DefaultCooldown
    /\ safety_op = NoOp
    /\ PolicyInit

NextRate ==
    \/ ClockTick
    \/ RlCanReply
    \/ RlRecordReply
    \/ RlGetRemaining

SpecRate == InitRate /\ [][NextRate]_vars

\* A cooldown manager of any default, called for any chats at any times
InitCooldown ==
    /\ PipelineInit /\ IpcInit /\ AgentInit /\ PollInit
    /\ transports = {"whatsapp"} /\ sender_set
    /\ max_replies = MaxReplies
    /\ window_seconds = WindowSeconds
    /\ default_cooldown \in 0..MaxCooldown
    /\ safety_op = NoOp
    /\ PolicyInit

NextCooldown ==
    \/ ClockTick
    \/ \E chat \in Chats, seconds \in 0..MaxCooldown : CdSetCooldown(chat, seconds)
    \/ \E chat \in Chats : CdRecordReply(chat)
    \/ \E chat \in Chats : CdIsOnCooldown(chat)

SpecCooldown == InitCooldown /\ [][NextCooldown]_vars


\* A policy evaluator loaded from any policies file, asked about any context
InitPolicy ==
    /\ PipelineInit /\ IpcInit /\ AgentInit /\ PollInit
    /\ transports = {"whatsapp"} /\ sender_set
    /\ max_replies = MaxReplies
    /\ window_seconds = WindowSeconds
    /\ default_cooldown = DefaultCooldown
    /\ safety_op = NoOp
    /\ \E rules_data \in RulesData : policy_rules = load_rules(rules_data)
    /\ fallback_action \in ReplyPolicy
    /\ \E context \in Contexts : policy_ctx = Some(context)
    /\ policy_decision = None
    /\ QuietInit /\ CodecInit

NextPolicy == PolicyEvaluate

SpecPolicy == InitPolicy /\ [][NextPolicy]_vars


\* One rule with any condition map, asked about any context; a listed value
\* is one the context can have, or one no context has ("sms", "nobody",
\* "friends"). The context may carry a mention flag left by an earlier call.
ProbeConditions ==
    [platform : {None, Some("whatsapp"), Some("sms")},
     is_dm : {None, Some(TRUE), Some(FALSE)},
     is_group : {None, Some(TRUE), Some(FALSE)},
     role : {None, Some("family"), Some("nobody")},
     group_category : {None, Some("work"), Some("friends")},
     is_reply_to_bot : {None, Some(TRUE), Some(FALSE)},
     is_mentioned : {None, Some(TRUE), Some(FALSE)}]

ProbeContexts ==
    { [text |-> text, is_dm |-> ~g, is_group |-> g, role |-> "family",
       group_category |-> cat, platform |-> "whatsapp", is_reply_to_bot |-> r,
       is_mentioned |-> stale] :
         text \in {<<"h", "i">>, <<"M", "a", "x">>}, g \in BOOLEAN,
         cat \in {None, Some("work")}, r \in BOOLEAN, stale \in BOOLEAN }

InitMatch ==
    /\ PipelineInit /\ IpcInit /\ AgentInit /\ PollInit
    /\ transports = {"whatsapp"} /\ sender_set
    /\ max_replies = MaxReplies
    /\ window_seconds = WindowSeconds
    /\ default_cooldown = DefaultCooldown
    /\ safety_op = NoOp
    /\ \E c \in ProbeConditions : policy_rules = <<Rule("probe", c, "always")>>
    /\ fallback_action = "never"
    /\ \E context \in ProbeContexts : policy_ctx = Some(context)
    /\ policy_decision = None
    /\ QuietInit /\ CodecInit

SpecMatch == InitMatch /\ [][NextPolicy]_vars


\* A quiet-hours checker with any hours, enabled or not, asked at any hour
InitQuiet ==
    /\ PipelineInit /\ IpcInit /\ AgentInit /\ PollInit
    /\ transports = {"whatsapp"} /\ sender_set
    /\ max_replies = MaxReplies
    /\ window_seconds = WindowSeconds
    /\ default_cooldown = DefaultCooldown
    /\ safety_op = NoOp
    /\ policy_rules = <<>>
    /\ fallback_action = "selective"
    /\ policy_ctx = None
    /\ policy_decision = None
    /\ CodecInit
    /\ start_hour \in DayHours
    /\ end_hour \in DayHours
    /\ qh_enabled \in BOOLEAN
    /\ quiet_answer = None

NextQuiet == \E current_hour \in DayHours : QhIsQuietTime(current_hour)

SpecQuiet == InitQuiet /\ [][NextQuiet]_vars


\* One command sent to the worker and decoded there
NextCodec ==
    \/ \E cmd \in Commands : SendCommand(cmd)
    \/ WorkerDecode

SpecCodec == InitIPC /\ [][NextCodec]_vars


\* the lifecycle of the agent, its transports and the worker process, with a
\* console client asking for the status
StatusRequest == Request(Some(1), "get_status", NoParams)

InitAgent ==
    /\ PipelineInit
    /\ AgentInit
    /\ PollInit
    /\ ConfigInit
    /\ wire = <<>>
    /\ wire_eof = FALSE
    /\ written = <<>>
    /\ ipc_buffer = <<>>
    /\ ipc_running = FALSE
    /\ ipc_pc = "unstarted"
    /\ chunk_lost = FALSE
    /\ processed = <<>>
    /\ dispatched = <<>>
    /\ calls = <<>>

NextAgent ==
    \/ AgentStart
    \/ \E spawned \in BOOLEAN : WhatsappStart(spawned)
    \/ WhatsappStartReturns
    \/ \E db_exists \in BOOLEAN : ImessageStart(db_exists)
    \/ WorkerExit
    \/ IpcReadEnds
    \/ GatherReturns
    \/ GatherRaises
    \/ Signal
    \/ WhatsappStop
    \/ \E outcome \in {"sent", "raised", "timeout"} : PmShutdown(outcome)
    \/ PmWaitReturns
    \/ PmWait5Timeout
    \/ PmWait2Timeout
    \/ ImessageStop
    \/ CancelTasks
    \/ RpcCall(StatusRequest, FALSE)

SpecAgent == InitAgent /\ [][NextAgent]_vars

\* ================================================================== claims
Has(seq, x) == \E i \in 1..Len(seq) : seq[i] = x
Count(seq, x) == Cardinality({i \in 1..Len(seq) : seq[i] = x})
SelfRows(st) == {i \in 1..Len(st) : st[i].is_self}

\* ts2 is ts1 with some expired ticks dropped from its head, nothing added
PrunedOnly(ts1, ts2, t) ==
    \E k \in 0..Len(ts1) :
        /\ ts2 = SubSeq(ts1, k + 1, Len(ts1))
        /\ \A i \in 1..k : ts1[i] < t - WindowSeconds

SendFailed(d) == d.result \in {"send_failed", "no_sender"}

\* C1 (as amended): when the send callback returns false -- no transport for
\* the platform, an unknown platform tag, no sender configured, or the
\* transport reporting failure -- the call has recorded no rate-limiter tick and
\* no cooldown tick and has persisted no outgoing message: the last-reply map is
\* as it was, and the tick queue differs from what it was at most by the
\* expired ticks the rate-limit gate pruned.
C1_FailedSendKeepsCounters ==
    /\ [](SendFailed(done) =>
            /\ ~Has(done.trace, "rl_tick")
            /\ ~Has(done.trace, "cd_tick")
            /\ ~Has(done.trace, "store_out"))
    /\ [][\A t \in Tasks :
            /\ (pc[t] = "idle" /\ pc'[t] = "generating") =>
                  /\ PrunedOnly(timestamps, timestamps', now)
                  /\ last_reply' = last_reply
                  /\ SelfRows(store') = SelfRows(store)
            /\ (pc[t] = "generating" /\ pc'[t] = "sending") =>
                  /\ timestamps' = timestamps
                  /\ last_reply' = last_reply
                  /\ store' = store
            /\ (pc[t] # "idle" /\ pc'[t] = "idle" /\ SendFailed(done')) =>
                  /\ timestamps' = timestamps
                  /\ last_reply' = last_reply
                  /\ store' = store
       ]_vars

\* C1 witness: a transport reported failure while the limiter holds a tick
C1_Witness ==
    /\ done.result = "send_failed"
    /\ Has(done.trace, "send_false")
    /\ timestamps # <<>>

\* C1 as stated: after a failed send the tick queue is exactly what it was
\* before the event (not even pruned)
C1_QueueExactlyAsBefore ==
    SendFailed(done) =>
        /\ ~Has(done.trace, "rl_tick")
        /\ ~Has(done.trace, "rl_prune")
        /\ ~Has(done.trace, "cd_tick")
        /\ ~Has(done.trace, "store_out")

Last(seq) == seq[Len(seq)]

\* C2: an event with is_self = true is persisted exactly once and nothing else
\* happens: no contact or group resolution, no gate check, no policy
\* evaluation, no generation, no send; the rate-limiter queue, the last-reply
\* map, the cooldown overrides and the pause state are unchanged.
C2_SelfEventOnlyPersisted ==
    /\ []((done.result # "none" /\ done.is_self) =>
            (done.result = "self" /\ done.trace = <<"store_in">>))
    /\ [][(nEvents' = nEvents + 1 /\ Last(store').is_self) =>
            /\ store' = Append(store, Last(store'))
            /\ done'.is_self /\ done'.chat_id = Last(store').chat_id
            /\ UNCHANGED <<timestamps, last_reply, custom_cooldowns, paused,
                           pause_until, transport_sends, gate, pc, cur, trace>>
       ]_vars

\* C2 witness: a self event went through while the bot was paused and the
\* rate limiter held a tick
C2_Witness ==
    /\ done.result = "self"
    /\ done.is_self
    /\ paused
    /\ timestamps # <<>>

GateOrder == <<"paused", "quiet_hours", "rate_limit", "cooldown", "double_reply">>
Failing(states) == {i \in 1..Len(GateOrder) : states[GateOrder[i]]}
FirstFailing(states) == CHOOSE i \in Failing(states) : \A j \in Failing(states) : i <= j

\* C3: the gates are evaluated in the order pause, quiet hours, rate limit,
\* cooldown, anti-double-reply and the check stops at the first one that fails:
\* for every combination of gate states the skip reason is that of the earliest
\* failing gate, no gate after it is consulted, and there is no reason only
\* when all five pass. The call stopped by a gate ends with that reason.
C3_GateOrder ==
    /\ [](gate.checked =>
            IF Failing(gate.states) = {}
            THEN /\ gate.reason = None
                 /\ gate.consulted = GateOrder
            ELSE /\ gate.reason = Some(GateOrder[FirstFailing(gate.states)])
                 /\ gate.consulted = SubSeq(GateOrder, 1, FirstFailing(gate.states)))
    /\ [][(nEvents' = nEvents + 1 /\ ~Last(store').is_self) =>
            /\ gate'.checked
            /\ IF gate'.reason # None
               THEN pc' = pc /\ done'.result = Val(gate'.reason)
               ELSE done'.result = "no_response" \/ pc' # pc
            /\ (gate'.reason \in {Some("paused"), Some("quiet_hours")}) =>
                  timestamps' = timestamps
       ]_vars

\* C3 witness: rate limit and cooldown both fail, the rate limit is reported
C3_Witness ==
    /\ gate.checked
    /\ gate.states.rate_limit
    /\ gate.states.cooldown
    /\ ~gate.states.paused
    /\ ~gate.states.quiet_hours
    /\ gate.reason = Some("rate_limit")

GateReasons == {"paused", "quiet_hours", "rate_limit", "cooldown", "double_reply"}

\* the call was stopped by a gate, by the policy or by an empty generation
Stopped(d) ==
    \/ d.result \in GateReasons
    \/ Has(d.trace, "policy:no")
    \/ (Has(d.trace, "generate") /\ d.response = "")

\* C4 (as amended): a call stopped by a failing gate, a negative policy
\* decision or an empty generation records no rate-limiter tick and no
\* cooldown tick, dispatches nothing and persists no outgoing message. Besides
\* the persistence of the inbound event its only effects are those of the
\* steps before and in the gate check: the contact's cooldown override is
\* installed for the chat, an expired pause is cleared, expired ticks are
\* pruned from the rate-limiter queue.
C4_StoppedCallEffects ==
    /\ [](Stopped(done) =>
            /\ done.result \in GateReasons \cup {"no_response", "no_text"}
            /\ \A x \in {"rl_tick", "cd_tick", "send_call", "transport_send", "store_out"} :
                  ~Has(done.trace, x))
    /\ [][/\ (nEvents' = nEvents + 1 /\ ~Last(store').is_self) =>
               /\ store' = Append(store, Last(store'))
               /\ last_reply' = last_reply
               /\ transport_sends' = transport_sends
               /\ PrunedOnly(timestamps, timestamps', now)
               /\ \A c \in Chats :
                     \/ custom_cooldowns'[c] = custom_cooldowns[c]
                     \/ (c = Last(store').chat_id /\ custom_cooldowns'[c] = Some(AliceCooldown))
               /\ \/ (paused' = paused /\ pause_until' = pause_until)
                  \/ (paused /\ pause_until # None /\ now >= Val(pause_until)
                        /\ ~paused' /\ pause_until' = None)
          /\ \A t \in Tasks :
               (pc[t] = "generating" /\ pc'[t] = "idle" /\ done'.response = "") =>
                  UNCHANGED <<timestamps, last_reply, custom_cooldowns, paused,
                              pause_until, transport_sends, store>>
       ]_vars

\* C4 witness: a generation came back empty in a chat whose override is
\* installed, while the limiter holds a tick
C4_Witness ==
    /\ done.result = "no_text"
    /\ custom_cooldowns[done.chat_id] = Some(AliceCooldown)
    /\ timestamps # <<>>

\* C4 as stated: a stopped call changes nothing but the store, which gains
\* the inbound event -- in particular no cooldown override is installed
C4_NoEffectButPersistence ==
    [][(nEvents' = nEvents + 1 /\ ~Last(store').is_self /\ pc' = pc) =>
          /\ store' = Append(store, Last(store'))
          /\ UNCHANGED <<custom_cooldowns, timestamps, last_reply, paused,
                         pause_until, transport_sends>>
    ]_vars

Seq0(seq) == {SubSeq(seq, k + 1, Len(seq)) : k \in 0..Len(seq)}
PositionOf(seq, x) == CHOOSE i \in 1..Len(seq) : seq[i] = x
Effects == {"rl_tick", "cd_tick", "store_out"}

\* C5: a successful dispatch records exactly one rate-limiter tick and exactly
\* one cooldown tick for the event's chat and then persists exactly one
\* outgoing message with is_self true for the same chat and platform; none of
\* the three happens before the send has returned true, and they happen in
\* that order.
C5_TicksAfterSuccessfulSend ==
    /\ [](/\ \A t \in Tasks : \A x \in Effects : ~Has(trace[t], x)
          /\ Has(done.trace, "send_true") =>
                /\ done.result = "sent"
                /\ \A x \in Effects : Count(done.trace, x) = 1
                /\ Count(done.trace, "transport_send") = 1
                /\ PositionOf(done.trace, "transport_send") < PositionOf(done.trace, "send_true")
                /\ PositionOf(done.trace, "send_true") < PositionOf(done.trace, "rl_tick")
                /\ PositionOf(done.trace, "rl_tick") < PositionOf(done.trace, "cd_tick")
                /\ PositionOf(done.trace, "cd_tick") < PositionOf(done.trace, "store_out"))
    /\ [][\A t \in Tasks :
            /\ (pc[t] = "generating" /\ pc'[t] = "sending") =>
                  UNCHANGED <<timestamps, last_reply, store>>
            /\ (pc[t] = "sending" /\ pc'[t] = "idle" /\ Has(done'.trace, "send_true")) =>
                  /\ \E kept \in Seq0(timestamps) :
                        /\ PrunedOnly(timestamps, kept, now)
                        /\ timestamps' = Append(kept, now)
                  /\ last_reply' = [last_reply EXCEPT ![done'.chat_id] = Some(now)]
                  /\ Len(store') = Len(store) + 1
                  /\ SubSeq(store', 1, Len(store)) = store
                  /\ Last(store').is_self
                  /\ Last(store').chat_id = done'.chat_id
                  /\ Last(store').platform = done'.platform
                  /\ done'.chat_id = Val(cur[t].data).chat_id
                  /\ done'.platform = Val(cur[t].data).platform
       ]_vars

\* C5 witness: a reply went out and left its tick, its last-reply entry and
\* its self row
C5_Witness ==
    /\ done.result = "sent"
    /\ Has(done.trace, "send_true")
    /\ timestamps # <<>>
    /\ last_reply[done.chat_id] # None
    /\ Last(store).is_self
    /\ Last(store).chat_id = done.chat_id

\* the step is the gate check of a non-self event
GateCheckStep == nEvents' = nEvents + 1 /\ ~Last(store').is_self
Passed(pu, t) == IF pu = None THEN FALSE ELSE t > Val(pu)
InFuture(pu, t) == IF pu = None THEN FALSE ELSE t < Val(pu)
RemainingGates == {i \in 2..Len(GateOrder) : gate'.states[GateOrder[i]]}

\* C6: a gate check made while paused with a deadline that has passed does
\* not answer "paused", sets paused to false, clears pause_until and goes on
\* to the remaining gates (its answer is the first of them that fails, or
\* none); a gate check made while paused with no deadline or with a deadline
\* still in the future answers "paused" and leaves paused and pause_until
\* as they are.
C6_AutoResumeOnExpiry ==
    [][GateCheckStep =>
          /\ (paused /\ Passed(pause_until, now)) =>
                /\ gate'.reason # Some("paused")
                /\ ~paused'
                /\ pause_until' = None
                /\ Len(gate'.consulted) >= 2
                /\ gate'.consulted[2] = "quiet_hours"
                /\ IF RemainingGates = {}
                   THEN gate'.reason = None
                   ELSE \E i \in RemainingGates :
                          /\ \A j \in RemainingGates : i <= j
                          /\ gate'.reason = Some(GateOrder[i])
                          /\ done'.result = GateOrder[i]
          /\ (paused /\ (pause_until = None \/ InFuture(pause_until, now))) =>
                /\ gate'.reason = Some("paused")
                /\ gate'.consulted = <<"paused">>
                /\ done'.result = "paused"
                /\ paused'
                /\ pause_until' = pause_until
    ]_vars

\* C6 witness: an expired pause was cleared by a gate check which then went
\* on and stopped the event at a later gate
C6_Witness ==
    /\ Has(done.trace, "pause_cleared")
    /\ done.result \in {"quiet_hours", "rate_limit", "cooldown", "double_reply"}
    /\ ~paused
    /\ pause_until = None

\* the step is a control-plane call answered by the server
RpcStep == nRpc' = nRpc + 1
DeadlineReached == IF pause_until = None THEN FALSE ELSE now >= Val(pause_until)

\* C7: pause with a duration d sets paused and sets pause_until to the
\* current time plus d; pause without a duration sets paused and clears
\* pause_until; resume clears both from any state; get_status reports the
\* paused flag and the pause_until that the last pause left, which nothing but
\* a later pause, a resume or a gate check at or after the deadline changes.
C7_PauseResumeStatus ==
    [][/\ RpcStep =>
            LET q == rpc'.request
                d == q.params.duration
            IN  /\ (q.method = "pause" /\ d.type = "num") =>
                      paused' /\ pause_until' = Some(now + d.v)
                /\ (q.method = "pause" /\ d.type = "none") =>
                      paused' /\ pause_until' = None
                /\ q.method = "resume" => ~paused' /\ pause_until' = None
                /\ q.method = "get_status" =>
                      /\ rpc'.response.error = None
                      /\ rpc'.response.result.paused = paused
                      /\ rpc'.response.result.pause_until = pause_until
                      /\ UNCHANGED <<paused, pause_until>>
       /\ (~RpcStep /\ (paused' # paused \/ pause_until' # pause_until)) =>
            paused /\ DeadlineReached /\ ~paused' /\ pause_until' = None
    ]_vars

SendRequest(q) == q.method = "send_message"

\* C8: the send_message call with a non-empty jid and text calls the
\* transport registered for the platform exactly once and returns the
\* transport's flag, whatever the state of the pipeline (a platform with no
\* registered transport gives success false and no call); it adds no
\* rate-limiter tick and no cooldown tick and leaves the pause state alone.
\* With an empty jid or an empty text it returns success false and calls no
\* transport.
C8_SendMessageBypassesGates ==
    [][(RpcStep /\ SendRequest(rpc'.request)) =>
          LET q == rpc'.request.params
              res == rpc'.response
          IN  /\ res.error = None
              /\ res.result.kind = "send"
              /\ UNCHANGED <<timestamps, last_reply, paused, pause_until, store>>
              /\ IF q.jid = "" \/ q.text = ""
                 THEN /\ ~res.result.success
                      /\ transport_sends' = transport_sends
                      /\ rpc'.flag = None
                 ELSE IF q.platform \in transports
                 THEN /\ transport_sends' =
                            [transport_sends EXCEPT ![q.platform] = @ + 1]
                      /\ rpc'.flag # None
                      /\ res.result.success = Val(rpc'.flag)
                 ELSE /\ ~res.result.success
                      /\ transport_sends' = transport_sends
    ]_vars

\* C8 witness: a forced send went out and was reported successful while the
\* pipeline was paused and the rate limit exhausted
C8_Witness ==
    /\ SendRequest(rpc.request)
    /\ rpc.flag = Some(TRUE)
    /\ rpc.response.result.success
    /\ transport_sends[rpc.request.params.platform] >= 2
    /\ paused
    /\ Len(timestamps) >= MaxReplies
    /\ ~can_reply(timestamps, now)

WellFormed(x) ==
    /\ DOMAIN x.response = {"id", "result", "error"}
    /\ (x.response.result # Null) # (x.response.error # None)
    /\ x.response.id = (IF x.request.kind = "object" THEN x.request.id ELSE None)
    /\ x.request.kind \in {"object", "not_json"}
    /\ x.request.kind = "not_json" => x.response.error = Some("Invalid JSON")
    /\ (x.request.kind = "object" /\ x.request.method \notin Methods) =>
          x.response.error = Some("Unknown method")
    /\ (x.request.kind = "object" /\ x.request.method \in Methods
          /\ x.response.error = None) =>
          x.response.result.kind =
             (CASE x.request.method = "ping" -> "ping"
                [] x.request.method = "get_status" -> "status"
                [] x.request.method = "send_message" -> "send"
                [] x.request.method = "pause" -> "pause"
                [] x.request.method = "resume" -> "resume"
                [] OTHER -> "chats")

\* C9: every response the server writes has the fields id, result and error,
\* exactly one of result and error is non-null, and its id is the id of the
\* request it answers (null when the request has none or could not be
\* parsed); so for every method of the registry, for unknown methods and for
\* handlers that raise.
C9_ResponseShape ==
    \A i \in 1..Len(outbox) : WellFormed(outbox[i])

\* C9 witness: an unknown method and a raising handler were both answered,
\* each with an error that carries its request's id
C9_Witness ==
    /\ Len(outbox) = 2
    /\ outbox[1].request.method = "bogus"
    /\ outbox[1].response.id = Some(2)
    /\ outbox[2].request.method = "pause"
    /\ outbox[2].request.params.duration = StrDuration
    /\ outbox[2].response.error = Some("exception")
    /\ outbox[2].response.id = Some(1)

\* C10: every non-empty frame a client sends is answered by exactly one
\* response, and the server closes a connection only after the client has
\* disconnected and every frame it sent has been handled.
C10_EveryFrameAnswered ==
    /\ [](Len(outbox) = consumed)
    /\ [][(conn # "closed" /\ conn' = "closed") => (conn = "eof" /\ inbox = <<>>)]_vars

\* the byte stream of a sequence of frames, each followed by its delimiter
RECURSIVE Stream(_)
Stream(frames) ==
    IF frames = <<>> THEN <<>>
    ELSE Head(frames) \o <<NULL_CHAR>> \o Stream(Tail(frames))

\* the bytes the reader has read so far
ReadSoFar ==
    SubSeq(Stream(written), 1, Len(Stream(written)) - Len(wire))

\* the frames of a byte sequence that are closed by a delimiter, and the bytes
\* that follow its last delimiter
RECURSIVE CompleteFrames(_)
CompleteFrames(bytes) ==
    IF ~has_delimiter(bytes) THEN <<>>
    ELSE <<SubSeq(bytes, 1, index(bytes) - 1)>>
            \o CompleteFrames(SubSeq(bytes, index(bytes) + 1, Len(bytes)))
RECURSIVE Remainder(_)
Remainder(bytes) ==
    IF ~has_delimiter(bytes) THEN bytes
    ELSE Remainder(SubSeq(bytes, index(bytes) + 1, Len(bytes)))

\* the UTF-8 bytes of a text
RECURSIVE encode(_)
encode(text) ==
    IF text = <<>> THEN <<>>
    ELSE (IF Head(text) = "E" THEN <<"L", "T">> ELSE <<Head(text)>>) \o encode(Tail(text))

ValidFrame(f) == decode(f).ok /\ json_loads_ok(decode(f).text)
DispatchedBytes == [i \in 1..Len(dispatched) |-> encode(dispatched[i])]

\* C11: whenever the reader waits for its next read, it has dispatched exactly
\* the valid frames among the complete frames it has read, in the order they
\* were written, and its buffer holds exactly the bytes that follow the last
\* delimiter read -- however the stream was cut into chunks.
C11_ExactFraming ==
    ipc_pc = "reading" =>
        /\ DispatchedBytes = SelectSeq(CompleteFrames(ReadSoFar), ValidFrame)
        /\ encode(ipc_buffer) = Remainder(ReadSoFar)

\* the step hands a string that is not a message to _process_message
DropsFrame == Len(processed') = Len(processed) + 1 /\ dispatched' = dispatched
\* the step is the return of a handler that raised
HandlerRaised == Len(calls') = Len(calls) + 1 /\ calls'[Len(calls')][1] = "raised"

C13_EofIsFailure ==
    (agent_pc = "gather" /\ wire_eof) =>
        task["whatsapp"] \in {"created", "running", "failed"}

Escalation(outcome) == <<<<"shutdown", outcome>>, <<"terminate">>, <<"kill">>>>
IsPrefix(a, b) == Len(a) <= Len(b) /\ a = SubSeq(b, 1, Len(a))
Appends(step) == stop_log' = Append(stop_log, step)

\* C14: a stop of a started worker process attempts the shutdown command
\* first, sends terminate only from the wait that follows the attempt and only
\* if the process has not exited -- whether the command was sent, raised or
\* timed out -- and sends kill only after terminate, from the wait that follows
\* it, if the process still has not exited; the stop returns with the process
\* reference cleared, and a stop with no process is a no-op.
C14_EscalationOrder ==
    /\ [](/\ \/ stop_log \in {<<>>, <<<<"noop">>>>}
             \/ \E o \in {"sent", "raised", "timeout"} : IsPrefix(stop_log, Escalation(o))
          /\ (stop_pc = "wait5" /\ os_proc = "alive") => ENABLED PmWait5Timeout
          /\ (stop_pc = "wait2" /\ os_proc = "alive") => ENABLED PmWait2Timeout
          /\ stop_pc = "wait5" => Len(stop_log) = 1
          /\ stop_pc = "wait2" => Len(stop_log) = 2)
    /\ [][/\ (agent_pc = "stop_whatsapp" /\ agent_pc' # agent_pc) =>
               IF process_set
               THEN stop_pc' = "shutdown" /\ stop_log' = <<>> /\ agent_pc' = "stop_process"
                    /\ UNCHANGED <<process_set, os_proc>>
               ELSE stop_log' = <<<<"noop">>>> /\ agent_pc' = "stop_imessage"
                    /\ UNCHANGED <<process_set, os_proc, stop_pc>>
          /\ (stop_pc = "shutdown" /\ stop_pc' # stop_pc) =>
               /\ \E o \in {"sent", "raised", "timeout"} : stop_log' = <<<<"shutdown", o>>>>
               /\ stop_pc' = "wait5"
          /\ Appends(<<"terminate">>) => stop_pc = "wait5" /\ os_proc = "alive"
          /\ Appends(<<"kill">>) => stop_pc = "wait2" /\ os_proc = "alive"
          /\ (agent_pc = "stop_process" /\ agent_pc' # agent_pc) =>
               /\ os_proc = "exited"
               /\ ~process_set'
               /\ stop_pc' = "idle"
               /\ stop_log' = stop_log
       ]_vars

\* C14 witness: the shutdown command could not be sent, the process ignored
\* terminate and was killed, and the stop returned
C14_Witness ==
    /\ stop_log = Escalation("raised")
    /\ agent_pc = "stopped"
    /\ ~process_set
    /\ os_proc = "exited"

\* a log of callback calls in which every call has returned (or raised)
\* before the next one starts
Alternates(log) ==
    \A i \in 1..Len(log) :
        IF i % 2 = 1
        THEN log[i][1] = "start"
        ELSE log[i][1] \in {"return", "raised"} /\ log[i][2] = log[i - 1][2]
Started(log) == [k \in 1..((Len(log) + 1) \div 2) |-> log[2 * k - 1][2]]

\* C15: each transport hands its events to the processing call one at a time
\* and in delivery order: the IPC reader starts the handler of the k-th valid
\* frame written only when the handler of the one before has returned, and
\* the poll loop starts the callback of a message only when the callback of
\* the one before has returned, in ascending ROWID order with no text row
\* passed over; a call of one transport may be in flight while the other
\* transport starts, runs and ends calls.
C15_OneAtATime ==
    /\ [](/\ Alternates(calls)
          /\ Alternates(poll_calls)
          /\ (ipc_pc = "handling") = (Len(calls) % 2 = 1)
          /\ (poll_pc = "in_callback") = (Len(poll_calls) % 2 = 1)
          /\ Started(calls) = [k \in 1..Len(dispatched) |-> k]
          /\ IsPrefix(DispatchedBytes, SelectSeq(written, ValidFrame))
          /\ \A k \in 1..Len(Started(poll_calls)) :
                LET id == Started(poll_calls)[k] IN
                /\ id \in 1..Len(db) /\ db[id]
                /\ k > 1 =>
                     /\ Started(poll_calls)[k - 1] < id
                     /\ \A r \in (Started(poll_calls)[k - 1] + 1)..(id - 1) : ~db[r])
    /\ [][/\ Len(calls') > Len(calls) /\ calls'[Len(calls')][1] = "start" =>
               /\ ipc_pc # "handling"
               /\ UNCHANGED pollVars
          /\ Len(poll_calls') > Len(poll_calls)
                /\ poll_calls'[Len(poll_calls')][1] = "start" =>
               /\ poll_pc # "in_callback"
               /\ UNCHANGED ipcVars
       ]_vars

\* C15 witness: the second event of each transport is in its processing call
\* at the same moment
C15_Witness ==
    /\ ipc_pc = "handling" /\ Len(calls) = 3
    /\ poll_pc = "in_callback" /\ Len(poll_calls) = 3

\* a transport whose task has been started
Started1(p) == task[p] \in {"running", "returned"}

\* C16: while no shutdown was requested, the failure of one transport's task
\* leaves the orchestrator waiting in its run and every other started
\* transport running.
C16_FailureIsolated ==
    \A p \in transports :
        (task[p] = "failed" /\ ~shutdown_requested) =>
            /\ agent_pc = "gather"
            /\ \A q \in transports \ {p} : Started1(q) => t_running[q]

\* a transport that has faulted: its task ended in error, or its worker's
\* output ended and the receive loop is over
Faulted(p) ==
    IF p = "whatsapp"
    THEN task[p] = "failed" \/ (wire_eof /\ ipc_pc = "returned" /\ os_proc = "exited")
    ELSE listener = "failed"

\* C17: once a transport's task has ended on a fault the transport is marked
\* inactive, and every get_status answered from then on reports it with
\* active = false; a transport that is running is reported active = true.
C17_StatusReportsFault ==
    /\ [](\A p \in transports :
             (Faulted(p) /\ task[p] \in {"failed", "returned"}) => ~t_running[p])
    /\ [][(RpcStep /\ rpc'.request.method = "get_status") =>
             \A p \in transports :
                /\ Faulted(p) => ~rpc'.response.result.transports[p]
                /\ (t_running[p] /\ ~Faulted(p)) =>
                      rpc'.response.result.transports[p]
       ]_vars

\* the recorded ticks that are not older than the window
Fresh(ts, t, w) == {i \in 1..Len(ts) : t - ts[i] <= w}
IsSuffix(a, b) == Len(a) <= Len(b) /\ a = SubSeq(b, Len(b) - Len(a) + 1, Len(b))
SafetyCall(op) ==
    /\ safety_op'.op = op
    /\ <<safety_op, timestamps, last_reply, custom_cooldowns>>' #
           <<safety_op, timestamps, last_reply, custom_cooldowns>>
OnlyOldestExpired ==
    /\ timestamps # <<>>
    /\ now - timestamps[1] > window_seconds
    /\ Len(timestamps) > 1 => now - timestamps[2] <= window_seconds

\* C18: for every capacity and window, can_reply answers true exactly when
\* fewer ticks than the capacity are not older than the window, and false
\* when as many record_reply calls as the capacity lie within the window; a
\* can_reply call adds no tick; when only the oldest tick has aged past the
\* window, a call prunes that tick alone and the free capacity grows by one.
C18_SlidingWindow ==
    /\ [](/\ (Len(rl_cleanup(timestamps, now, window_seconds)) < max_replies)
                = (Cardinality(Fresh(timestamps, now, window_seconds)) < max_replies)
          /\ (/\ Len(timestamps) >= max_replies
              /\ now - timestamps[Len(timestamps) - max_replies + 1] <= window_seconds)
                => ~(Len(rl_cleanup(timestamps, now, window_seconds)) < max_replies))
    /\ [][/\ SafetyCall("can_reply") =>
               /\ safety_op'.answer =
                     (Cardinality(Fresh(timestamps, now, window_seconds)) < max_replies)
               /\ IsSuffix(timestamps', timestamps)
               /\ Len(timestamps') = Cardinality(Fresh(timestamps, now, window_seconds))
          /\ SafetyCall("record_reply") =>
               /\ timestamps'[Len(timestamps')] = now
               /\ Len(timestamps') =
                     Cardinality(Fresh(timestamps, now, window_seconds)) + 1
          /\ ((SafetyCall("can_reply") \/ SafetyCall("get_remaining"))
                 /\ OnlyOldestExpired) =>
               /\ timestamps' = Tail(timestamps)
               /\ max_replies - Len(timestamps') = (max_replies - Len(timestamps)) + 1
          /\ (SafetyCall("get_remaining") /\ OnlyOldestExpired
                 /\ Len(timestamps) <= max_replies) =>
               safety_op'.n = (max_replies - Len(timestamps)) + 1
       ]_vars

\* C18 witness: a limiter of capacity 2 that was full; the oldest tick alone
\* was pruned by can_reply, which answers true with one tick left
C18_Witness ==
    /\ safety_op.op = "can_reply"
    /\ safety_op.n = 1
    /\ safety_op.answer
    /\ max_replies = 2
    /\ Len(timestamps) = 1

\* the cooldown duration of a chat and the answer for it now
Duration(chat) ==
    IF IsNone(custom_cooldowns[chat]) THEN default_cooldown
    ELSE Val(custom_cooldowns[chat])
OnCooldown(chat) ==
    cd_is_on_cooldown(last_reply, custom_cooldowns, chat, now, default_cooldown)
Elapsed(chat) == IF IsNone(last_reply[chat]) THEN 0 ELSE now - Val(last_reply[chat])

\* C19: a chat with no recorded reply is not on cooldown; a chat whose last
\* reply was recorded at t is on cooldown at the times t' >= t with
\* t' - t < d and not on cooldown once t' - t >= d, d being the chat's
\* override if one is set and the default otherwise; record_reply and
\* set_cooldown for one chat leave the answer for every other chat as it was.
C19_Cooldown ==
    /\ [](\A chat \in Chats :
             OnCooldown(chat) =
                (~IsNone(last_reply[chat]) /\ Elapsed(chat) < Duration(chat)))
    /\ [][\A chat \in Chats :
            /\ (SafetyCall("cd_record_reply") /\ safety_op'.chat = chat) =>
                 /\ last_reply'[chat] = Some(now)
                 /\ OnCooldown(chat)' = (0 < Duration(chat))
                 /\ \A other \in Chats \ {chat} : OnCooldown(other)' = OnCooldown(other)
            /\ (SafetyCall("set_cooldown") /\ safety_op'.chat = chat) =>
                 /\ Duration(chat)' = safety_op'.n
                 /\ \A other \in Chats \ {chat} :
                       /\ OnCooldown(other)' = OnCooldown(other)
                       /\ Duration(other)' = Duration(other)
            /\ (SafetyCall("is_on_cooldown") /\ safety_op'.chat = chat) =>
                 /\ safety_op'.answer =
                       (~IsNone(last_reply[chat]) /\ Elapsed(chat) < Duration(chat))
                 /\ UNCHANGED <<last_reply, custom_cooldowns>>
       ]_vars

\* C19 witness: c1 has an override shorter than the default and is asked
\* about after the override has elapsed but before the default would have;
\* g1, replied to as well and without an override, is still on cooldown
C19_Witness ==
    /\ safety_op.op = "is_on_cooldown" /\ safety_op.chat = "c1"
    /\ ~safety_op.answer
    /\ ~IsNone(last_reply["c1"]) /\ ~IsNone(custom_cooldowns["c1"])
    /\ Elapsed("c1") > 0
    /\ Elapsed("c1") < default_cooldown
    /\ ~IsNone(last_reply["g1"]) /\ IsNone(custom_cooldowns["g1"])
    /\ OnCooldown("g1")

\* a condition is met when the rule does not state it or states the value
\* the context has
Met(condition, value) == IsNone(condition) \/ Val(condition) = value
AllMatch(rule, context) ==
    /\ Met(rule.conditions.platform, context.platform)
    /\ Met(rule.conditions.is_dm, context.is_dm)
    /\ Met(rule.conditions.is_group, context.is_group)
    /\ Met(rule.conditions.role, context.role)
    /\ IsNone(rule.conditions.group_category)
          \/ rule.conditions.group_category = context.group_category
    /\ Met(rule.conditions.is_reply_to_bot, context.is_reply_to_bot)
    /\ Met(rule.conditions.is_mentioned, check_mentioned(context.text))
Matching == {i \in 1..Len(policy_rules) : AllMatch(policy_rules[i], Val(policy_ctx))}
FirstMatch == CHOOSE i \in Matching : \A j \in Matching : i <= j
Respond(action, context) ==
    CASE action = "always" -> TRUE
      [] action = "never" -> FALSE
      [] action = "selective" -> check_mentioned(context.text) \/ context.is_reply_to_bot

\* C20: the decision returned is that of the first loaded rule all of whose
\* conditions match the context, with reason "rule:<name>", the rule's name
\* and action, and the fallback action with reason "fallback" when no rule
\* matches; should_respond is true for always, false for never and, for
\* selective, true exactly when the text mentions the bot or the message
\* replies to the bot; the rules after the first match change nothing.
C20_FirstMatchWins ==
    ~IsNone(policy_decision) =>
        LET d == Val(policy_decision)
            context == Val(policy_ctx)
        IN  IF Matching = {}
            THEN d = PolicyDecision(Respond(fallback_action, context), "fallback",
                                    None, fallback_action)
            ELSE LET rule == policy_rules[FirstMatch] IN
                 /\ d = PolicyDecision(Respond(rule.action, context),
                                       "rule:" \o rule.name, Some(rule.name), rule.action)
                 /\ evaluate(SubSeq(policy_rules, 1, FirstMatch), fallback_action,
                             context) = d
                 /\ \A later \in RulePool :
                       evaluate(SubSeq(policy_rules, 1, FirstMatch)
                                    \o load_rules(<<later>>),
                                fallback_action, context) = d

\* C20 witness: two rules match, the second with another action that would
\* have given the opposite answer, and the decision is the first rule's
C20_Witness ==
    /\ ~IsNone(policy_decision)
    /\ Matching = {1, 2}
    /\ policy_rules[1].action # policy_rules[2].action
    /\ Respond(policy_rules[2].action, Val(policy_ctx)) # Val(policy_decision).should_respond
    /\ Val(policy_decision).rule_name = Some(policy_rules[1].name)

ConditionKeys ==
    {"platform", "is_dm", "is_group", "role", "group_category", "is_reply_to_bot",
     "is_mentioned"}
\* the attribute of the context a key stands for; a context without a group
\* has no group category, and the mention flag is the one of the text
Attribute(context, key) ==
    IF key = "group_category" THEN context.group_category
    ELSE IF key = "is_mentioned" THEN Some(check_mentioned(context.text))
    ELSE Some(context[key])
EveryListedKeyEqual(conditions, context) ==
    \A key \in ConditionKeys :
        IsNone(conditions[key]) \/ conditions[key] = Attribute(context, key)

\* C21: the rule matches exactly when every key its condition map lists
\* equals the context's attribute, the mention flag being the one computed
\* from the text in this call; an empty map matches, a group-category
\* condition does not match a context without a group; the call changes
\* the context's is_mentioned field and nothing else.
C21_ConditionMatch ==
    /\ [](~IsNone(policy_decision) =>
            LET conditions == policy_rules[1].conditions
                context == Val(policy_ctx)
                matched == Val(policy_decision).reason = "rule:probe"
            IN  /\ matched = EveryListedKeyEqual(conditions, context)
                /\ conditions = NoConditions => matched
                /\ (~IsNone(conditions.group_category)
                      /\ IsNone(context.group_category)) => ~matched
                /\ (\/ conditions.platform = Some("sms")
                    \/ conditions.role = Some("nobody")
                    \/ conditions.group_category = Some("friends")) => ~matched
                /\ context.is_mentioned = check_mentioned(context.text))
    /\ [][policy_decision' # policy_decision =>
            /\ policy_ctx' = Some([Val(policy_ctx) EXCEPT
                                     !.is_mentioned = check_mentioned(Val(policy_ctx).text)])
            /\ UNCHANGED <<policy_rules, fallback_action>>
       ]_vars

\* C21 witness: a rule listing the mention flag, the group category and the
\* chat type matched a group message that names the bot
C21_Witness ==
    /\ ~IsNone(policy_decision)
    /\ Val(policy_decision).reason = "rule:probe"
    /\ policy_rules[1].conditions.is_mentioned = Some(TRUE)
    /\ policy_rules[1].conditions.group_category = Some("work")
    /\ policy_rules[1].conditions.is_group = Some(TRUE)
    /\ IsNone(policy_rules[1].conditions.role)

\* C22: with the checker enabled, an hour is quiet exactly when it lies in
\* [start, end) for start <= end and when it is at or after start or before
\* end for start > end; the end hour is never quiet; with the checker
\* disabled no hour is quiet.
C22_QuietHours ==
    ~IsNone(quiet_answer) =>
        LET h == Val(quiet_answer).hour
            quiet == Val(quiet_answer).quiet
        IN  /\ (qh_enabled /\ start_hour <= end_hour) =>
                  (quiet = (h \in start_hour..(end_hour - 1)))
            /\ (qh_enabled /\ start_hour > end_hour) =>
                  (quiet = (h \in (start_hour..23) \cup (0..(end_hour - 1))))
            /\ h = end_hour => ~quiet
            /\ ~qh_enabled => ~quiet

\* C22 witness: a range crossing midnight; the hour before its end is quiet
C22_Witness ==
    /\ ~IsNone(quiet_answer)
    /\ qh_enabled
    /\ start_hour = 22 /\ end_hour = 6
    /\ Val(quiet_answer).hour = 5
    /\ Val(quiet_answer).quiet

NulCount(bytes) == Cardinality({i \in 1..Len(bytes) : bytes[i] = NULL_CHAR})

\* C23: the command the worker decodes from the frame is the command that
\* was handed to send_command, action and payload -- a payload with content,
\* an empty payload object, or no payload -- and the frame holds exactly one
\* NUL byte, its last byte.
C23_RoundTrip ==
    ~IsNone(received) =>
        /\ Val(received) = Val(command)
        /\ NulCount(Val(stdin_bytes)) = 1
        /\ Last(Val(stdin_bytes)) = NULL_CHAR

\* a call for the chat is suspended in generation or in the send
InFlight(chat) ==
    \E t \in Tasks :
        pc[t] \in {"generating", "sending"} /\ Val(cur[t].data).chat_id = chat

\* C24: the cooldown gate reads the recorded ticks only and the tick is
\* recorded only when a send has returned true: a gate check made for a chat
\* while another call for the same chat is in generation or in the send is
\* not refused on its account and records nothing, so the second event
\* passes the cooldown gate and both replies can go out within one cooldown
\* period.
C24_CooldownCheckNotAtomic ==
    /\ [][(GateCheckStep /\ InFlight(Last(store').chat_id)) =>
             LET chat == Last(store').chat_id IN
             /\ gate'.reason = Some("cooldown") =>
                   /\ ~IsNone(last_reply[chat])
                   /\ now - Val(last_reply[chat]) < get_cooldown(custom_cooldowns', chat)
             /\ (IsNone(last_reply[chat]) /\ Has(gate'.consulted, "cooldown")) =>
                   Has(gate'.consulted, "double_reply")
             /\ last_reply' = last_reply
       ]_vars
    /\ [][last_reply' # last_reply =>
             \E t \in Tasks :
                /\ pc[t] = "sending" /\ pc'[t] = "idle"
                /\ done'.result = "sent"
                /\ last_reply' = [last_reply EXCEPT ![done'.chat_id] = Some(now)]
       ]_vars

\* C24 witness: two replies to the group g1, one through each transport,
\* both stored within the group's cooldown duration
C24_Witness ==
    /\ transport_sends["whatsapp"] = 1 /\ transport_sends["imessage"] = 1
    /\ \E i \in SelfRows(store), j \in SelfRows(store) :
          /\ i < j
          /\ store[i].chat_id = "g1" /\ store[j].chat_id = "g1"
          /\ store[i].platform # store[j].platform
          /\ store[j].timestamp - store[i].timestamp < get_cooldown(custom_cooldowns, "g1")

\* the senders whose events are stored as the row m
SendersOf(m) ==
    {e.sender_id : e \in {d \in UNION {Events(t, m.timestamp) : t \in Tasks} :
                             d.chat_id = m.chat_id /\ d.platform = m.platform}}

Overrides(m) == {cooldown_override(s) : s \in SendersOf(m)}

\* C25: a sender's cooldown override is installed for the chat before the
\* gates run, so the cooldown gate of the same event measures against it; an
\* event of a sender without override leaves every duration as it is, so an
\* installed override goes on applying to the chat; and no other step of the
\* pipeline changes or removes a duration.
C25_OverrideSticksToChat ==
    /\ [][GateCheckStep =>
             LET m == Last(store')
                 chat == m.chat_id IN
             \A ov \in Overrides(m) :
                IF IsNone(ov)
                THEN /\ custom_cooldowns' = custom_cooldowns
                     /\ Has(gate'.consulted, "cooldown") =>
                           ((gate'.reason = Some("cooldown")) =
                                (/\ ~IsNone(last_reply[chat])
                                 /\ now - Val(last_reply[chat]) <
                                       get_cooldown(custom_cooldowns, chat)))
                ELSE /\ custom_cooldowns' = [custom_cooldowns EXCEPT ![chat] = ov]
                     /\ Has(gate'.consulted, "cooldown") =>
                           ((gate'.reason = Some("cooldown")) =
                                (/\ ~IsNone(last_reply[chat])
                                 /\ now - Val(last_reply[chat]) < Val(ov)))
       ]_vars
    /\ [][~GateCheckStep => custom_cooldowns' = custom_cooldowns]_vars

\* C25 witness: an event of bob, who has no override, is refused by the
\* cooldown gate in g1 under the duration alice's earlier event installed,
\* at a time the default duration has already run out
C25_Witness ==
    /\ done.result = "cooldown" /\ done.chat_id = "g1" /\ done.platform = "imessage"
    /\ custom_cooldowns["g1"] = Some(AliceCooldown)
    /\ ~IsNone(last_reply["g1"])
    /\ now - Val(last_reply["g1"]) >= DefaultCooldown
    /\ now - Val(last_reply["g1"]) < AliceCooldown

\* the rows of the chat holding its greatest timestamp
Newest(st, chat) ==
    {j \in ChatRows(st, chat) : \A k \in ChatRows(st, chat) : st[k].timestamp <= st[j].timestamp}

\* the gate check of the step reached the double-reply gate
ReachedDoubleReply == GateCheckStep /\ Has(gate'.consulted, "double_reply")

Rejected == gate'.reason = Some("double_reply")

\* the stored event is older than the newest self row of its chat
OlderThanLastReply(st) ==
    \E i \in SelfRows(st) :
        st[i].chat_id = Last(st).chat_id /\ Last(st).timestamp < st[i].timestamp

\* the step hands its event on to generation
RepliedTo == \E t \in Tasks : pc[t] = "idle" /\ pc'[t] = "generating"

\* self and non-self rows share the greatest timestamp of the chat
Tied(st, chat) ==
    \E i \in Newest(st, chat), j \in Newest(st, chat) : st[i].is_self # st[j].is_self

\* C26 as stated: the event is refused with double_reply iff the newest row
\* of its chat after its own persistence is a self row; an event older than
\* the last stored self row of its chat is never replied to; an event newer
\* than every stored row of its chat passes the gate. (Stores in which self
\* and non-self rows share the greatest timestamp are left aside.)
C26_Original ==
    /\ [][ReachedDoubleReply =>
             LET chat == Last(store').chat_id IN
             /\ (\A j \in Newest(store', chat) : store'[j].is_self) => Rejected
             /\ (\A j \in Newest(store', chat) : ~store'[j].is_self) => ~Rejected
       ]_vars
    /\ [][(GateCheckStep /\ OlderThanLastReply(store')
              /\ ~Tied(store', Last(store').chat_id)) => ~RepliedTo]_vars
    /\ [][(ReachedDoubleReply /\ Newest(store', Last(store').chat_id) = {Len(store')})
             => ~Rejected]_vars

\* C26: the event is refused with double_reply iff the newest row of its
\* chat after its own persistence is a self row (either answer when self and
\* non-self rows share the greatest timestamp); an event older than a self
\* row is never replied to as long as that self row is the newest of the
\* chat; an event newer than every stored row of its chat passes the gate.
C26_DoubleReplyByTimestamp ==
    /\ [][ReachedDoubleReply =>
             LET chat == Last(store').chat_id IN
             /\ (\A j \in Newest(store', chat) : store'[j].is_self) => Rejected
             /\ (\A j \in Newest(store', chat) : ~store'[j].is_self) => ~Rejected
       ]_vars
    /\ [][(GateCheckStep /\ OlderThanLastReply(store')
              /\ \A j \in Newest(store', Last(store').chat_id) : store'[j].is_self)
             => ~RepliedTo]_vars
    /\ [][(ReachedDoubleReply /\ Newest(store', Last(store').chat_id) = {Len(store')})
             => ~Rejected]_vars

\* C26 witness: a delayed event of g1, older than the stored reply, has been
\* refused with double_reply, the reply being the newest row of the chat
C26_Witness ==
    /\ done.result = "double_reply" /\ done.chat_id = "g1"
    /\ OlderThanLastReply(store)
    /\ \A j \in Newest(store, "g1") : store[j].is_self

\* C27: in every state the tick queue of the rate limiter holds at most
\* max_replies ticks that have not expired (one tick per reply the pipeline
\* dispatched), whatever the interleaving of the transports' events.
C27_GlobalReplyCap ==
    Len(cleanup_old_entries(timestamps, now)) <= MaxReplies

\* a pause is in force: paused, and no deadline or the deadline still ahead
PauseInForce == paused /\ (IsNone(pause_until) \/ now < Val(pause_until))

\* a pipeline call hands its reply to a transport
Dispatch == \E t \in Tasks : pc[t] = "generating" /\ pc'[t] = "sending"

\* C28: while a pause is in force (the pause call has returned, no resume
\* yet, the deadline not reached) the pipeline hands no reply to a
\* transport, events that passed the gates before the pause included.
C28_NoDispatchWhilePaused == [][PauseInForce => ~Dispatch]_vars

\* C29: pause_until is set only while paused is true (paused false implies
\* pause_until absent), and before any call has been handled paused is false
\* and pause_until absent.
C29_PauseStateInvariant ==
    /\ ~paused => IsNone(pause_until)
    /\ (nEvents = 0 /\ nRpc = 0) => (~paused /\ IsNone(pause_until))

\* C29 witness: a resume has been answered after an earlier control call,
\* and the processor is unpaused without deadline
C29_Witness ==
    /\ nRpc = 2
    /\ rpc.request.method = "resume"
    /\ rpc.response.result = [kind |-> "resume", paused |-> FALSE]
    /\ ~paused /\ IsNone(pause_until)

\* row r holds a message with text
TextRow(r) == r \in 1..Len(db) /\ db[r]

\* the callback has been started for row r
Delivered(r) == \E i \in 1..Len(poll_calls) : poll_calls[i] = <<"start", r>>

\* the callback starts are strictly ascending: no row twice, none out of order
AscendingOnce ==
    \A k \in 2..Len(Started(poll_calls)) :
        Started(poll_calls)[k - 1] < Started(poll_calls)[k]

\* at most once and in ascending order, the last-seen ROWID never decreasing
PollOrder ==
    /\ []AscendingOnce
    /\ [][last_rowid' >= last_rowid]_vars

\* C30: while the listener keeps running, every message with text whose
\* ROWID is greater than the ROWID recorded at start is eventually handed to
\* the callback, whatever rows without text lie before it; every message is
\* handed over at most once and in ascending ROWID order; and the last-seen
\* ROWID never decreases.
C30_EveryTextRowDelivered ==
    /\ \A r \in 1..MaxRows :
          (last_rowid < r) => (TextRow(r) ~> Delivered(r))
    /\ PollOrder
====
